---- MODULE Spec2Model ----
(***************************************************************************)
(* TimelineAssembler: the timelines stored for one project, the asset      *)
(* catalogue each is assembled from, and the operations that read and      *)
(* write them: the storage trigger processMediaUpload, the cloud functions *)
(* autoAssembleTimeline and exportTimelineEDL, and the client library's    *)
(* createTimeline, getTimeline, listTimelines, deleteTimeline,             *)
(* Timeline.addMediaFromDrive, Timeline.autoAssemble, Timeline.exportEDL,  *)
(* Timeline.addTrack and Timeline.addClip (all in src/README.md).          *)
(*                                                                         *)
(* Conventions.                                                            *)
(*  - A JavaScript value that may be undefined or null is a tuple: <<>>    *)
(*    when it is, <<v>> when it is v.                                      *)
(*  - A database node is the record of the children it has; a node without *)
(*    children does not exist and is <<>>.  The database keeps what is     *)
(*    written to it as written.                                            *)
(*  - Times are whole seconds.  A transition's duration is kept in quarter *)
(*    seconds (field durationQ), so that clipDuration / 4 stays exact.     *)
(*  - Dates (metadata.timestamp, uploadTime, Date.now(), new Date(), the   *)
(*    server's timestamp) are whole milliseconds of one clock that never   *)
(*    runs backwards; every reading is a value of its own.                 *)
(*  - A call is a sequence of steps: it starts and runs to its first       *)
(*    await; each later step is the awaited operation taking effect and    *)
(*    the call running on to its next await, or to its return.             *)
(***************************************************************************)
EXTENDS Integers, Sequences, FiniteSets, TLC

VARIABLES
    timelines,  \* projects/<p>/timelines: per push key the node stored there
    pushed,     \* how many keys push() has generated, for timelines and for
                \* exportHistory records
    now,        \* the clock: its last reading, in milliseconds
    pc,         \* per caller: "idle", or the await its call is suspended at
    snap,       \* per caller: the local variables of its suspended call
    call,       \* the last call that returned or threw: its name, arguments,
                \* outcome, and what it found when it started
    locals,     \* the last auto-assembly that returned: the assets it read,
                \* its sortedAssets, groups and groupedAssets
    acked,      \* per timeline: the clips addClip returned since the tracks
                \* were last replaced by an auto-assembly or deleted
    storage,    \* the storage bucket: the EDL files and the thumbnails
                \* uploaded, by path
    files,      \* os.tmpdir() of the cloud functions: the files in it, by path
    objects     \* the timelines a Timeline object has been handed out for

vars ==
    <<timelines, pushed, now, pc, snap, call, locals, acked, storage, files, objects>>

----------------------------------------------------------------------------
(* Bounds of the model.                                                    *)

MaxTimelines == 2
MaxAssets == 3
MaxNow == 1
MaxTracks == 2
MaxClips == 2
NumClients == 2
MaxExports == 2

----------------------------------------------------------------------------
(* JavaScript values.                                                      *)

None == <<>>
Some(v) == <<v>>
IsSome(m) == m # <<>>

\* NaN, as a number no time of the model reaches.
NaN == -1000

\* ToBoolean of a number that may be undefined: undefined, 0 and NaN are falsy.
TruthyNum(m) == IsSome(m) /\ m[1] # 0 /\ m[1] # NaN

\* ToBoolean of a string that may be undefined: undefined and '' are falsy.
TruthyText(m) == IsSome(m) /\ m[1] # ""

\* a + b in floating point as far as NaN goes: undefined + 5 is NaN.
JsAdd(ma, b) == IF IsSome(ma) /\ ma[1] # NaN THEN ma[1] + b ELSE NaN

\* a > b: false whenever either side is NaN.
JsGreater(a, b) == a # NaN /\ b # NaN /\ a > b

\* m || d for a number m that may be undefined.
OrElse(m, d) == IF TruthyNum(m) THEN m[1] ELSE d

\* m || d for a string m that may be undefined.
TextOrElse(m, d) == IF TruthyText(m) THEN m[1] ELSE d

\* obj[key], undefined when obj has no such property.
Lookup(obj, key) == IF key \in DOMAIN obj THEN obj[key] ELSE None

Sign(n) == IF n < 0 THEN -1 ELSE IF n > 0 THEN 1 ELSE 0

Min(a, b) == IF a <= b THEN a ELSE b

Reverse(s) == [i \in 1..Len(s) |-> s[Len(s) + 1 - i]]

Range(s) == {s[i] : i \in 1..Len(s)}

\* The clock when the constructor connects to the project: the records the
\* project then holds were stored at the times before it.
StartTime == MaxAssets + 3

\* The times among times that the clock can give when it last gave ms.
After(ms, times) == {t \in times : t >= ms}

\* n successive readings of the clock, the first not before ms.
Readings(ms, n, times) ==
    {t \in [1..n -> After(ms, times)] : \A i \in 1..(n - 1) : t[i] <= t[i + 1]}

\* admin.database.ServerValue.TIMESTAMP: the placeholder a write carries
\* until it takes effect, when the server puts its time for it.
ServerValueTimestamp == [sv |-> "timestamp"]

----------------------------------------------------------------------------
(* Sorting: assets.sort(compareFn).                                        *)

\* The cloud comparator: timestamp, or uploadTime when timestamp is falsy.
CloudSortTime(a) ==
    IF TruthyNum(a.metadata.timestamp) THEN a.metadata.timestamp[1] ELSE a.uploadTime

CompareCloud(a, b) == Sign(CloudSortTime(a) - CloudSortTime(b))

\* The client comparator: new Date(undefined) is an invalid date, and a
\* difference with it is NaN, which sort takes as +0.
CompareClient(a, b) ==
    IF IsSome(a.metadata.timestamp) /\ IsSome(b.metadata.timestamp)
    THEN Sign(a.metadata.timestamp[1] - b.metadata.timestamp[1])
    ELSE 0

Compare(path, a, b) ==
    IF path = "cloud" THEN CompareCloud(a, b) ELSE CompareClient(a, b)

\* Array.prototype.sort as V8 runs it on a short array: the initial run is
\* found (and reversed when strictly descending), the rest is inserted by
\* binary search.
RECURSIVE RunEnd(_, _, _, _)
RunEnd(path, s, desc, idx) ==
    IF idx > Len(s) THEN Len(s)
    ELSE LET order == Compare(path, s[idx], s[idx - 1]) IN
         IF (desc /\ order >= 0) \/ (~desc /\ order < 0)
         THEN idx - 1
         ELSE RunEnd(path, s, desc, idx + 1)

CountAndMakeRun(path, s) ==
    LET desc == Compare(path, s[2], s[1]) < 0
        n == RunEnd(path, s, desc, 3)
    IN  [run |-> n,
         arr |-> IF desc
                 THEN Reverse(SubSeq(s, 1, n)) \o SubSeq(s, n + 1, Len(s))
                 ELSE s]

RECURSIVE BinarySearch(_, _, _, _, _)
BinarySearch(path, s, pivot, left, right) ==
    IF left >= right THEN left
    ELSE LET mid == left + ((right - left) \div 2) IN
         IF Compare(path, pivot, s[mid]) < 0
         THEN BinarySearch(path, s, pivot, left, mid)
         ELSE BinarySearch(path, s, pivot, mid + 1, right)

RECURSIVE BinaryInsertionSort(_, _, _)
BinaryInsertionSort(path, s, start) ==
    IF start > Len(s) THEN s
    ELSE LET pivot == s[start]
             left == BinarySearch(path, s, pivot, 1, start)
         IN  BinaryInsertionSort(
                 path,
                 SubSeq(s, 1, left - 1) \o <<pivot>> \o SubSeq(s, left, start - 1)
                     \o SubSeq(s, start + 1, Len(s)),
                 start + 1)

ArraySort(path, s) ==
    IF Len(s) < 2 THEN s
    ELSE LET r == CountAndMakeRun(path, s) IN
         BinaryInsertionSort(path, r.arr, r.run + 1)

\* The switch on strategy.  The client's parameter defaults to
\* 'chronological' when the caller gives none.
Strategy(path, strategy) ==
    IF path = "client" /\ strategy = None THEN Some("chronological") ELSE strategy

SortAssets(path, strategy, as) ==
    IF Strategy(path, strategy) = Some("chronological")
    THEN ArraySort(path, as)
    ELSE as

----------------------------------------------------------------------------
(* Grouping: the groups object and Object.values(groups).flat().           *)

\* The property names of the model that are array indices ("1", "2"), with
\* their numeric values: an object lists these first, in ascending order.
IndexKeyValue == ("1" :> 1) @@ ("2" :> 2)

IsIndexKey(k) == k \in DOMAIN IndexKeyValue

\* The properties every object inherits from Object.prototype; each is a
\* function, or the prototype itself, and none is an array.
ObjectPrototype ==
    {"constructor", "hasOwnProperty", "isPrototypeOf", "propertyIsEnumerable",
     "toLocaleString", "toString", "valueOf", "__proto__", "__defineGetter__",
     "__defineSetter__", "__lookupGetter__", "__lookupSetter__"}

\* The key an asset is filed under.  The cloud function takes
\* metadata[groupBy] when it is truthy, else metadata.analysis[groupBy] when
\* that is truthy; the client takes metadata[groupBy] || 'unknown'.
GroupKey(path, asset, groupBy) ==
    LET own == Lookup(asset.metadata, groupBy)
        nested == Lookup(asset.metadata.analysis, groupBy)
    IN  IF TruthyText(own) THEN own[1]
        ELSE IF path = "cloud" /\ TruthyText(nested) THEN nested[1]
        ELSE "unknown"

\* groups has a property of its own under the key: an array made at line 498.
OwnGroup(groups, key) == \E i \in 1..Len(groups) : groups[i].key = key

\* groups[groupKey] is truthy: a group made earlier, or an inherited property.
HasGroup(groups, key) == OwnGroup(groups, key) \/ key \in ObjectPrototype

\* if (!groups[groupKey]) groups[groupKey] = []; groups[groupKey].push(asset).
\* groups is kept as its own properties in the order they were created.  The
\* push throws a TypeError (ok is FALSE) when groups[groupKey] is an
\* inherited property, which has no push.
PushToGroup(groups, key, asset) ==
    IF ~HasGroup(groups, key)
    THEN [ok |-> TRUE, groups |-> Append(groups, [key |-> key, members |-> <<asset>>])]
    ELSE IF OwnGroup(groups, key)
    THEN [ok |-> TRUE,
          groups |-> [i \in 1..Len(groups) |->
                         IF groups[i].key = key
                         THEN [key |-> key, members |-> Append(groups[i].members, asset)]
                         ELSE groups[i]]]
    ELSE [ok |-> FALSE, groups |-> groups]

\* The loop over sortedAssets; it ends at the first push that throws.
RECURSIVE BuildGroups(_, _, _, _)
BuildGroups(path, groupBy, sorted, groups) ==
    IF sorted = <<>> THEN [ok |-> TRUE, groups |-> groups]
    ELSE LET pushed1 == PushToGroup(groups, GroupKey(path, Head(sorted), groupBy),
                                    Head(sorted))
         IN  IF pushed1.ok
             THEN BuildGroups(path, groupBy, Tail(sorted), pushed1.groups)
             ELSE pushed1

\* The index-keyed properties of groups in ascending numeric order.
RECURSIVE IndexProperties(_, _)
IndexProperties(groups, above) ==
    LET left == {i \in 1..Len(groups) :
                    /\ IsIndexKey(groups[i].key)
                    /\ IndexKeyValue[groups[i].key] > above}
    IN  IF left = {} THEN <<>>
        ELSE LET i == CHOOSE j \in left :
                          \A k \in left :
                              IndexKeyValue[groups[j].key] <= IndexKeyValue[groups[k].key]
             IN  <<groups[i]>> \o IndexProperties(groups, IndexKeyValue[groups[i].key])

NamedProperty(g) == ~IsIndexKey(g.key)

\* A listing that leaves out the array-index keys: what C26 rules out.
ObjectValuesNamedOnly(groups) == SelectSeq(groups, NamedProperty)

\* Object.values: array-index keys first, ascending, then the other keys in
\* creation order.
ObjectValues(groups) ==
    IndexProperties(groups, -1) \o SelectSeq(groups, NamedProperty)

RECURSIVE Flat(_)
Flat(gs) == IF gs = <<>> THEN <<>> ELSE Head(gs).members \o Flat(Tail(gs))

\* The client's parameter defaults to 'scene' when the caller gives none.
GroupBy(path, groupBy) ==
    IF path = "client" /\ groupBy = None THEN Some("scene") ELSE groupBy

\* What the grouping step leaves: the groups object and groupedAssets, or a
\* TypeError (ok is FALSE).  if (groupBy) takes a groupBy that is truthy.
GroupAssets(path, groupBy, sorted) ==
    IF TruthyText(GroupBy(path, groupBy))
    THEN LET built == BuildGroups(path, GroupBy(path, groupBy)[1], sorted, <<>>)
         IN  [ok |-> built.ok, groups |-> built.groups,
              grouped |-> Flat(ObjectValues(built.groups))]
    ELSE [ok |-> TRUE, groups |-> <<>>, grouped |-> sorted]

----------------------------------------------------------------------------
(* Placement: one video track of clips laid end to end.                    *)

DefaultClipDuration == 5

ClipDuration(asset) == OrElse(asset.metadata.duration, DefaultClipDuration)

\* transitions.in of a clip that is not the first.  The cloud function
\* limits it to a quarter of the clip, at most one second; the client uses
\* one second.
TransitionIn(path, clipDuration) ==
    [type |-> "dissolve",
     durationQ |-> IF path = "cloud" THEN Min(4, clipDuration) ELSE 4]

\* A clip whose place shifts with the random draw: what C23 rules out.
MakeClipJittered(path, asset, currentTime, first, addTransitions, ms, rnd) ==
    [id |-> [ms |-> ms, rnd |-> Some(rnd)],
     assetId |-> asset.id,
     startTime |-> currentTime + rnd,
     endTime |-> currentTime + rnd + ClipDuration(asset),
     inPoint |-> 0,
     outPoint |-> ClipDuration(asset),
     transitions |->
         [in |-> IF addTransitions /\ ~first
                 THEN Some(TransitionIn(path, ClipDuration(asset)))
                 ELSE None,
          out |-> None]]

\* The clip of one asset; its id is clip-<ms>-<rnd>.
MakeClip(path, asset, currentTime, first, addTransitions, ms, rnd) ==
    [id |-> [ms |-> ms, rnd |-> Some(rnd)],
     assetId |-> asset.id,
     startTime |-> currentTime,
     endTime |-> currentTime + ClipDuration(asset),
     inPoint |-> 0,
     outPoint |-> ClipDuration(asset),
     transitions |->
         [in |-> IF addTransitions /\ ~first
                 THEN Some(TransitionIn(path, ClipDuration(asset)))
                 ELSE None,
          out |-> None]]

\* The loop over groupedAssets; clipMs[i] is the Date.now() read for the
\* i-th clip and rnds[i] the i-th Math.random() draw.
RECURSIVE PlaceClips(_, _, _, _, _, _, _)
PlaceClips(path, grouped, addTransitions, clipMs, rnds, clips, currentTime) ==
    IF Len(clips) = Len(grouped) THEN [clips |-> clips, currentTime |-> currentTime]
    ELSE LET asset == grouped[Len(clips) + 1] IN
         PlaceClips(path, grouped, addTransitions, clipMs, rnds,
                    Append(clips,
                           MakeClip(path, asset, currentTime, clips = <<>>,
                                    addTransitions, clipMs[Len(clips) + 1],
                                    rnds[Len(clips) + 1])),
                    currentTime + ClipDuration(asset))

\* The updates object written to the timeline.  trackMs is the Date.now()
\* read for the track's id; modified is the client's new Date(), read after
\* the loop, or the cloud function's ServerValue.TIMESTAMP.
AssembleUpdates(path, grouped, addTransitions, trackMs, clipMs, rnds, modified) ==
    LET placed == PlaceClips(path, grouped, addTransitions, clipMs, rnds, <<>>, 0)
    IN  [tracks |-> <<[id |-> trackMs, type |-> "video", clips |-> placed.clips]>>,
         duration |-> placed.currentTime,
         modified |-> modified]

----------------------------------------------------------------------------
(* The stored records.                                                     *)

\* The push keys of the timelines, in the order push() generates them.
Keys == 1..MaxTimelines

\* No node: what a read of a path without data yields (val() is null).
NoNode == <<>>

\* A timelineId that is no id: undefined, or the empty string.
NoTimelineId == 0

\* node has the child.
Has(node, child) == child \in DOMAIN node

\* The assets of a timeline node in key order, none when the child is
\* absent.
AssetsOf(node) == IF Has(node, "assets") THEN node.assets ELSE <<>>

\* The exportHistory of a timeline node, the record of each push key, none
\* when the child is absent.
ExportHistoryOf(node) == IF Has(node, "exportHistory") THEN node.exportHistory ELSE <<>>

\* An asset record among timelines/<id>/assets, with the fields that
\* autoAssembleTimeline and Timeline.autoAssemble read; shape gives those
\* that differ from asset to asset.  The record asset-<ms> has id ms and is
\* stored under it.
AssetRecord(i, shape) ==
    [id |-> i,
     uploadTime |-> shape.up,
     metadata |-> [timestamp |-> shape.ts,
                   duration |-> shape.dur,
                   scene |-> shape.scene,
                   analysis |-> [scene |-> shape.ascene]]]

AssetShape(ts, up, dur, scene, ascene) ==
    [ts |-> ts, up |-> up, dur |-> dur, scene |-> scene, ascene |-> ascene]

\* The two times at which the assets a project holds from the start were
\* stored: after the last of them was given its id, before StartTime.
Stored1 == MaxAssets + 1
Stored2 == MaxAssets + 2

\* The assets of a timeline in the order a read lists them, the order of
\* their keys (asset-<ms>, of one length), with the record stored at its
\* key: in the place of the record that had the key, if there was one.
InsertAsset(assets, record) ==
    SelectSeq(assets, LAMBDA a : a.id < record.id)
        \o <<record>>
        \o SelectSeq(assets, LAMBDA a : a.id > record.id)

\* Every catalogue of one to MaxAssets assets of the given shapes, as a
\* project holds it from the start: asset-1, asset-2, ...
Catalogues(shapes) ==
    UNION {{[i \in 1..n |-> AssetRecord(i, sh[i])] : sh \in [1..n -> shapes]}
           : n \in 1..MaxAssets}

\* Every catalogue of one asset of the given shapes.
OneAssetCatalogues(shapes) == {<<AssetRecord(1, shape)>> : shape \in shapes}

\* Catalogues that differ in metadata.duration: missing, zero, negative, positive.
DurationShapes ==
    {AssetShape(None, Stored1, dur, None, None) :
        dur \in {None, Some(0), Some(-2), Some(3)}}

\* Catalogues that differ in metadata.timestamp (missing, zero, positive)
\* and uploadTime.
OrderShapes ==
    {AssetShape(None, Stored1, Some(3), None, None),
     AssetShape(None, Stored2, Some(3), None, None),
     AssetShape(Some(0), Stored2, Some(3), None, None),
     AssetShape(Some(Stored2), Stored1, Some(3), None, None)}

\* Catalogues that differ in metadata.scene (missing, empty, a name, an
\* array index, a property every object inherits) and in
\* metadata.analysis.scene, which may give the name metadata.scene gives.
GroupShapes ==
    {AssetShape(None, Stored1, Some(3), None, None),
     AssetShape(None, Stored1, Some(3), None, Some("x")),
     AssetShape(None, Stored1, Some(3), Some("x"), None),
     AssetShape(None, Stored1, Some(3), Some(""), Some("x")),
     AssetShape(None, Stored1, Some(3), Some("1"), None),
     AssetShape(None, Stored1, Some(3), Some("2"), None),
     AssetShape(None, Stored1, Some(3), Some("constructor"), None)}

\* Catalogues for the exports: durations negative or positive.
ExportShapes ==
    {AssetShape(None, Stored1, dur, None, None) : dur \in {Some(-2), Some(3)}}

\* Catalogues that differ in metadata.timestamp and in metadata.scene.
PermuteShapes ==
    {AssetShape(ts, Stored1, Some(3), scene, None) :
        ts \in {Some(1), Some(2)}, scene \in {Some("1"), Some("x")}}

\* The catalogues the editing operations are explored over: assets alike.
EditShapes == {AssetShape(None, Stored1, Some(3), None, None)}

\* timelineData of createTimeline: created and modified are two readings of
\* the clock.
NewTimeline(timelineId, options, created, modified) ==
    [id |-> timelineId,
     name |-> options.name,
     created |-> created,
     modified |-> modified,
     framerate |-> OrElse(options.framerate, 24),
     resolution |-> TextOrElse(options.resolution, "1920x1080"),
     duration |-> 0,
     tracks |-> <<>>]

\* A timeline the project holds from the start: as createTimeline stored
\* it at time 0, with the asset records stored for it since.
StoredTimeline(options, catalogue) ==
    IF catalogue = <<>>
    THEN NewTimeline(1, options, 0, 0)
    ELSE [k \in (DOMAIN NewTimeline(1, options, 0, 0)) \cup {"assets"} |->
             IF k = "assets" THEN catalogue ELSE NewTimeline(1, options, 0, 0)[k]]

\* The options of createTimeline: nothing but the name.
DefaultOptions == {[name |-> "Demo", framerate |-> None, resolution |-> None]}

\* The options of createTimeline: framerate and resolution omitted, falsy,
\* or given.
TimelineOptions ==
    DefaultOptions
        \cup {[name |-> "Demo", framerate |-> Some(0), resolution |-> Some("")],
              [name |-> "demo", framerate |-> Some(30), resolution |-> Some("1280x720")]}

\* An update that adds the new tracks to the stored ones instead of
\* replacing them: what C22 rules out.
UpdateMergingTracks(stored, updates) ==
    [k \in (DOMAIN stored) \cup (DOMAIN updates) |->
        IF k \in DOMAIN updates
        THEN IF k = "tracks" /\ k \in DOMAIN stored
             THEN stored[k] \o updates[k]
             ELSE updates[k]
        ELSE stored[k]]

\* update(ref, updates): the named children are set, the rest is kept.
Update(stored, updates) ==
    [k \in (DOMAIN stored) \cup (DOMAIN updates) |->
        IF k \in DOMAIN updates THEN updates[k] ELSE stored[k]]

\* The tracks child of a timeline node, empty when absent.
TracksOf(node) == IF Has(node, "tracks") THEN node.tracks ELSE <<>>

AllClips(tracks) ==
    UNION {Range(tracks[t].clips) : t \in 1..Len(tracks)}

RECURSIVE TotalClips(_)
TotalClips(tracks) ==
    IF tracks = <<>> THEN 0 ELSE Len(Head(tracks).clips) + TotalClips(Tail(tracks))

\* How many times clip c is stored, over all tracks.
RECURSIVE CountIn(_, _)
CountIn(c, s) ==
    IF s = <<>> THEN 0 ELSE (IF Head(s) = c THEN 1 ELSE 0) + CountIn(c, Tail(s))

RECURSIVE StoredCount(_, _)
StoredCount(c, tracks) ==
    IF tracks = <<>> THEN 0
    ELSE CountIn(c, Head(tracks).clips) + StoredCount(c, Tail(tracks))

----------------------------------------------------------------------------
(* Timeline.addTrack and Timeline.addClip, as functions of what they read. *)

\* The tracks list addTrack writes back.
TracksWithNew(tracks, type, ms) ==
    Append(tracks, [id |-> ms, type |-> type, clips |-> <<>>])

\* findIndex: the first track with the id, 0 when there is none.
TrackIndex(tracks, trackId) ==
    IF \E i \in 1..Len(tracks) : tracks[i].id = trackId
    THEN CHOOSE i \in 1..Len(tracks) :
             /\ tracks[i].id = trackId
             /\ \A j \in 1..(i - 1) : tracks[j].id # trackId
    ELSE 0

\* The clip addClip builds from clipData; its id is clip-<ms>.
NewClip(clipData, ms) ==
    [id |-> [ms |-> ms, rnd |-> None],
     assetId |-> clipData.assetId,
     startTime |-> OrElse(clipData.startTime, 0),
     endTime |-> IF TruthyNum(clipData.endTime)
                 THEN clipData.endTime[1]
                 ELSE JsAdd(clipData.startTime, 5),
     inPoint |-> OrElse(clipData.inPoint, 0),
     outPoint |-> OrElse(clipData.outPoint, 5),
     transitions |-> IF IsSome(clipData.transitions)
                     THEN clipData.transitions[1]
                     ELSE [in |-> None, out |-> None]]

\* The duration loop of addClip over one track's clips.
RECURSIVE MaxEndTimeOfClips(_, _)
MaxEndTimeOfClips(clips, maxEndTime) ==
    IF clips = <<>> THEN maxEndTime
    ELSE MaxEndTimeOfClips(Tail(clips),
                           IF JsGreater(Head(clips).endTime, maxEndTime)
                           THEN Head(clips).endTime ELSE maxEndTime)

RECURSIVE MaxEndTime(_, _)
MaxEndTime(tracks, maxEndTime) ==
    IF tracks = <<>> THEN maxEndTime
    ELSE MaxEndTime(Tail(tracks), MaxEndTimeOfClips(Head(tracks).clips, maxEndTime))

\* The timeline addClip writes back, from the timeline it read.
TimelineWithClip(read, trackIndex, clip, ms) ==
    LET tracks == [read.tracks EXCEPT ![trackIndex].clips = Append(@, clip)]
    IN  Update(read, [tracks |-> tracks,
                      duration |-> MaxEndTime(tracks, 0),
                      modified |-> ms])

ClipData(startTime, endTime, inPoint, outPoint, transitions) ==
    [assetId |-> 1, startTime |-> startTime, endTime |-> endTime,
     inPoint |-> inPoint, outPoint |-> outPoint, transitions |-> transitions]

\* A transitions object a caller gives with its clipData.
FadeIn == [in |-> Some([type |-> "dissolve", durationQ |-> 2]), out |-> None]

\* The clipData the editing operations are explored over: startTime and
\* endTime each given or omitted, inPoint and outPoint omitted, transitions
\* omitted, or given with a clip that has both its times.
EditClipData ==
    {ClipData(st, en, None, None, None) : st \in {None, Some(6)}, en \in {None, Some(5)}}
        \cup {ClipData(Some(6), Some(11), None, None, Some(FadeIn))}

\* The clipData of the clips added before an export: [6, 11).
ExportClipData == {ClipData(Some(6), None, None, None, None)}

\* The clipData of the interleaved calls: [0, 5) and [6, 11).
ConcClipData ==
    {ClipData(None, Some(5), None, None, None), ClipData(Some(6), None, None, None, None)}

----------------------------------------------------------------------------
(* Calls and their steps.                                                  *)

Clients == 1..NumClients

Idle == [c \in Clients |-> "idle"]
NoSnap == [c \in Clients |-> <<>>]
NoLocals == [assets |-> <<>>, sorted |-> <<>>, groups |-> <<>>, grouped |-> <<>>]

\* No call is under way.
Quiet == pc = Idle

\* How many calls are suspended at one of the awaits.
InFlight(awaits) == Cardinality({c \in Clients : pc[c] \in awaits})

\* The call of c reaches an await: it keeps its local variables and waits.
Suspend(c, await, frame) ==
    /\ pc' = [pc EXCEPT ![c] = await]
    /\ snap' = [snap EXCEPT ![c] = frame]
    /\ call' = call

\* The call of c returns or throws.
Finish(c, record) ==
    /\ pc' = [pc EXCEPT ![c] = "idle"]
    /\ snap' = [snap EXCEPT ![c] = <<>>]
    /\ call' = record

Strategies == {None, Some("chronological"), Some("semantic"), Some("shuffle")}
GroupBys == {None, Some("scene")}
TrackTypes == {"video"}

----------------------------------------------------------------------------
(* TimelineAssembler.createTimeline, getTimeline, listTimelines and        *)
(* deleteTimeline.  The class Timeline is not exported: a caller has a      *)
(* Timeline object only from one of the first three.                       *)

\* createTimeline up to "await set(newTimelineRef, timelineData)".
CreateTimelineStart(c, optionSet, times) ==
    /\ pc[c] = "idle"
    /\ pushed.timelines < MaxTimelines
    /\ \E options \in optionSet, t \in Readings(now, 2, times) :
           /\ Suspend(c, "createTimeline:807",
                      [timelineId |-> pushed.timelines + 1,
                       timelineData |-> NewTimeline(pushed.timelines + 1, options,
                                                    t[1], t[2])])
           /\ now' = t[2]
    /\ pushed' = [pushed EXCEPT !.timelines = @ + 1]
    /\ UNCHANGED <<timelines, locals, acked, storage, files, objects>>

\* The set takes effect and createTimeline returns the Timeline object.
CreateTimelineSet(c) ==
    /\ pc[c] = "createTimeline:807"
    /\ timelines' = [timelines EXCEPT ![snap[c].timelineId] = snap[c].timelineData]
    /\ objects' = objects \cup {snap[c].timelineId}
    /\ Finish(c, [op |-> "createTimeline", id |-> snap[c].timelineId,
                  outcome |-> "ok"])
    /\ UNCHANGED <<pushed, now, locals, acked, storage, files>>

\* getTimeline up to "await get(timelineRef)".
GetTimelineStart(c, ids) ==
    /\ pc[c] = "idle"
    /\ \E id \in ids : Suspend(c, "getTimeline:821", [timelineId |-> id])
    /\ UNCHANGED <<timelines, pushed, now, locals, acked, storage, files, objects>>

\* The node has been read: getTimeline throws when there is none, and else
\* returns a Timeline object.
GetTimelineGet(c) ==
    /\ pc[c] = "getTimeline:821"
    /\ IF timelines[snap[c].timelineId] = NoNode
       THEN /\ Finish(c, [op |-> "getTimeline", id |-> snap[c].timelineId,
                          outcome |-> "error", message |-> "not-found"])
            /\ objects' = objects
       ELSE /\ Finish(c, [op |-> "getTimeline", id |-> snap[c].timelineId,
                          outcome |-> "ok", message |-> ""])
            /\ objects' = objects \cup {snap[c].timelineId}
    /\ UNCHANGED <<timelines, pushed, now, locals, acked, storage, files>>

\* listTimelines up to "await get(timelinesRef)".
ListTimelinesStart(c) ==
    /\ pc[c] = "idle"
    /\ Suspend(c, "listTimelines:838", [timelineId |-> NoTimelineId])
    /\ UNCHANGED <<timelines, pushed, now, locals, acked, storage, files, objects>>

\* The nodes have been read: listTimelines returns a Timeline object for
\* each.
ListTimelinesGet(c) ==
    /\ pc[c] = "listTimelines:838"
    /\ objects' = objects \cup {id \in Keys : timelines[id] # NoNode}
    /\ Finish(c, [op |-> "listTimelines", id |-> NoTimelineId, outcome |-> "ok"])
    /\ UNCHANGED <<timelines, pushed, now, locals, acked, storage, files>>

\* deleteTimeline up to "await remove(timelineRef)".
DeleteTimelineStart(c, ids) ==
    /\ pc[c] = "idle"
    /\ \E id \in ids : Suspend(c, "deleteTimeline:861", [timelineId |-> id])
    /\ UNCHANGED <<timelines, pushed, now, locals, acked, storage, files, objects>>

\* The remove takes effect: the node and all its children are gone.
DeleteTimelineRemove(c) ==
    /\ pc[c] = "deleteTimeline:861"
    /\ timelines' = [timelines EXCEPT ![snap[c].timelineId] = NoNode]
    /\ acked' = [acked EXCEPT ![snap[c].timelineId] = <<>>]
    /\ Finish(c, [op |-> "deleteTimeline", id |-> snap[c].timelineId,
                  outcome |-> "ok"])
    /\ UNCHANGED <<pushed, now, locals, storage, files, objects>>

----------------------------------------------------------------------------
(* Auto-assembly: the cloud function autoAssembleTimeline and the client's *)
(* Timeline.autoAssemble.                                                  *)

\* A check that lets every caller through: what C24 rules out.
AuthenticatedOrNot(auth) == TRUE

\* context.auth, as a condition.
Authenticated(auth) == auth

\* What an auto-assembly call found when it started: how many tracks the
\* timeline had, and whether the call before it was the same successful call.
Before(path, id, auth, strategy, groupBy, addTransitions) ==
    [tracks |-> IF id \in Keys THEN Len(TracksOf(timelines[id])) ELSE 0,
     same |-> /\ call.op = "autoAssemble"
              /\ call.outcome = "ok"
              /\ call.path = path
              /\ call.id = id
              /\ call.auth = auth
              /\ call.strategy = strategy
              /\ call.groupBy = groupBy
              /\ call.addTransitions = addTransitions]

\* The arguments of an auto-assembly call, with what it found at its start.
AssembleArgs(path, id, auth, strategy, groupBy, addTransitions) ==
    [id |-> id, auth |-> auth, strategy |-> strategy, groupBy |-> groupBy,
     addTransitions |-> addTransitions,
     before |-> Before(path, id, auth, strategy, groupBy, addTransitions)]

AssembleCall(path, args, outcome, message) ==
    [op |-> "autoAssemble", path |-> path, id |-> args.id, auth |-> args.auth,
     strategy |-> args.strategy, groupBy |-> args.groupBy,
     addTransitions |-> args.addTransitions, outcome |-> outcome,
     message |-> message, before |-> args.before]

\* Sorting and grouping of the assets read: the local variables assets,
\* sortedAssets, groups and groupedAssets.
Assemble(path, args, assets) ==
    LET sorted == SortAssets(path, args.strategy, assets)
        g == GroupAssets(path, args.groupBy, sorted)
    IN  [ok |-> g.ok, assets |-> assets, sorted |-> sorted, groups |-> g.groups,
         grouped |-> g.grouped]

\* autoAssembleTimeline up to its first await, the read of the timeline.
\* The authentication check is outside the try block; an error thrown
\* inside it reaches the caller as 'internal'.
AutoAssembleCloudStart(c, auths, ids, strategies, groupBys, flags) ==
    /\ pc[c] = "idle"
    /\ \E auth \in auths, id \in ids, strategy \in strategies, groupBy \in groupBys,
          addTransitions \in flags :
           LET args == AssembleArgs("cloud", id, auth, strategy, groupBy, addTransitions)
           IN  IF ~Authenticated(auth)
               THEN Finish(c, AssembleCall("cloud", args, "unauthenticated",
                                           "unauthenticated"))
               ELSE IF id = NoTimelineId
               THEN Finish(c, AssembleCall("cloud", args, "invalid-argument",
                                           "invalid-argument"))
               ELSE Suspend(c, "autoAssembleTimeline:444", args)
    /\ UNCHANGED <<timelines, pushed, now, locals, acked, storage, files, objects>>

\* The timeline has been read: if (!timeline), and on to the read of the
\* assets.
AutoAssembleCloudTimeline(c) ==
    /\ pc[c] = "autoAssembleTimeline:444"
    /\ IF timelines[snap[c].id] = NoNode
       THEN Finish(c, AssembleCall("cloud", snap[c], "internal", "not-found"))
       ELSE Suspend(c, "autoAssembleTimeline:452", snap[c])
    /\ UNCHANGED <<timelines, pushed, now, locals, acked, storage, files, objects>>

\* The assets have been read: sorting, grouping and placing, up to the
\* update of the timeline.
AutoAssembleCloudAssets(c, draws, times) ==
    /\ pc[c] = "autoAssembleTimeline:452"
    /\ LET args == snap[c]
           read == Assemble("cloud", args, AssetsOf(timelines[args.id]))
           n == Len(read.grouped)
       IN  IF read.assets = <<>>
           THEN /\ Finish(c, AssembleCall("cloud", args, "internal", "no-assets"))
                /\ now' = now
           ELSE IF ~read.ok
           THEN /\ Finish(c, AssembleCall("cloud", args, "internal", "TypeError"))
                /\ now' = now
           ELSE \E t \in Readings(now, n + 1, times), rnds \in [1..n -> draws] :
                    /\ Suspend(c, "autoAssembleTimeline:554",
                               [args |-> args,
                                read |-> read,
                                updates |-> AssembleUpdates(
                                                "cloud", read.grouped,
                                                args.addTransitions, t[1],
                                                [i \in 1..n |-> t[i + 1]], rnds,
                                                ServerValueTimestamp)])
                    /\ now' = t[n + 1]
    /\ UNCHANGED <<timelines, pushed, locals, acked, storage, files, objects>>

\* The update takes effect, with the server's time for modified, and the
\* function returns.
AutoAssembleCloudUpdate(c, times) ==
    /\ pc[c] = "autoAssembleTimeline:554"
    /\ \E ts \in After(now, times) :
           /\ timelines' = [timelines EXCEPT ![snap[c].args.id] =
                               Update(@, [snap[c].updates EXCEPT !.modified = ts])]
           /\ now' = ts
    /\ locals' = [k \in DOMAIN NoLocals |-> snap[c].read[k]]
    /\ acked' = [acked EXCEPT ![snap[c].args.id] = <<>>]
    /\ Finish(c, AssembleCall("cloud", snap[c].args, "ok", ""))
    /\ UNCHANGED <<pushed, storage, files, objects>>

\* Timeline.autoAssemble up to its first await, the read of the assets.
AutoAssembleClientStart(c, ids, strategies, groupBys, flags) ==
    /\ pc[c] = "idle"
    /\ \E id \in ids, strategy \in strategies, groupBy \in groupBys,
          addTransitions \in flags :
           /\ id \in objects
           /\ Suspend(c, "autoAssemble:955",
                      AssembleArgs("client", id, TRUE, strategy, groupBy,
                                   addTransitions))
    /\ UNCHANGED <<timelines, pushed, now, locals, acked, storage, files, objects>>

\* The assets have been read: sorting, grouping and placing, up to the
\* update of the timeline.  An error thrown reaches the caller as thrown.
AutoAssembleClientAssets(c, draws, times) ==
    /\ pc[c] = "autoAssemble:955"
    /\ LET args == snap[c]
           read == Assemble("client", args, AssetsOf(timelines[args.id]))
           n == Len(read.grouped)
       IN  IF read.assets = <<>>
           THEN /\ Finish(c, AssembleCall("client", args, "success-false", "no-assets"))
                /\ now' = now
           ELSE IF ~read.ok
           THEN /\ Finish(c, AssembleCall("client", args, "error", "TypeError"))
                /\ now' = now
           ELSE \E t \in Readings(now, n + 2, times), rnds \in [1..n -> draws] :
                    /\ Suspend(c, "autoAssemble:1042",
                               [args |-> args,
                                read |-> read,
                                updates |-> AssembleUpdates(
                                                "client", read.grouped,
                                                args.addTransitions, t[1],
                                                [i \in 1..n |-> t[i + 1]], rnds,
                                                t[n + 2])])
                    /\ now' = t[n + 2]
    /\ UNCHANGED <<timelines, pushed, locals, acked, storage, files, objects>>

\* The update takes effect and autoAssemble returns.
AutoAssembleClientUpdate(c) ==
    /\ pc[c] = "autoAssemble:1042"
    /\ timelines' = [timelines EXCEPT ![snap[c].args.id] = Update(@, snap[c].updates)]
    /\ locals' = [k \in DOMAIN NoLocals |-> snap[c].read[k]]
    /\ acked' = [acked EXCEPT ![snap[c].args.id] = <<>>]
    /\ Finish(c, AssembleCall("client", snap[c].args, "ok", ""))
    /\ UNCHANGED <<pushed, now, storage, files, objects>>

----------------------------------------------------------------------------
(* Timeline.addMediaFromDrive, Timeline.addTrack and Timeline.addClip.     *)

\* addMediaFromDrive up to "await update(this.timelineRef, ...)": it adds no
\* asset, and reads the clock for modified.
AddMediaFromDriveStart(c, ids, times) ==
    /\ pc[c] = "idle"
    /\ \E id \in ids, ms \in After(now, times) :
           /\ id \in objects
           /\ Suspend(c, "addMediaFromDrive:936",
                      [id |-> id, updates |-> [modified |-> ms]])
           /\ now' = ms
    /\ UNCHANGED <<timelines, pushed, locals, acked, storage, files, objects>>

\* The update takes effect and addMediaFromDrive returns the empty list.
AddMediaFromDriveUpdate(c) ==
    /\ pc[c] = "addMediaFromDrive:936"
    /\ timelines' = [timelines EXCEPT ![snap[c].id] = Update(@, snap[c].updates)]
    /\ Finish(c, [op |-> "addMediaFromDrive", id |-> snap[c].id, outcome |-> "ok"])
    /\ UNCHANGED <<pushed, now, locals, acked, storage, files, objects>>

AddTrackAwaits == {"addTrack:1153", "addTrack:1168"}
AddClipAwaits == {"addClip:1184", "addClip:1221"}

\* addTrack up to "await get(tracksRef)".
AddTrackStart(c, ids, types) ==
    /\ pc[c] = "idle"
    /\ \E id \in ids, type \in types :
           /\ id \in objects
           /\ Len(TracksOf(timelines[id])) + InFlight(AddTrackAwaits) < MaxTracks
           /\ Suspend(c, "addTrack:1153", [id |-> id, type |-> type])
    /\ UNCHANGED <<timelines, pushed, now, locals, acked, storage, files, objects>>

\* The tracks have been read: the new track is pushed onto them, up to
\* "await update(this.timelineRef, ...)".
AddTrackTracks(c, times) ==
    /\ pc[c] = "addTrack:1153"
    /\ \E t \in Readings(now, 2, times) :
           /\ Suspend(c, "addTrack:1168",
                      [id |-> snap[c].id,
                       updates |-> [tracks |-> TracksWithNew(
                                                   TracksOf(timelines[snap[c].id]),
                                                   snap[c].type, t[1]),
                                    modified |-> t[2]]])
           /\ now' = t[2]
    /\ UNCHANGED <<timelines, pushed, locals, acked, storage, files, objects>>

\* The update takes effect and addTrack returns the track.
AddTrackUpdate(c) ==
    /\ pc[c] = "addTrack:1168"
    /\ timelines' = [timelines EXCEPT ![snap[c].id] = Update(@, snap[c].updates)]
    /\ Finish(c, [op |-> "addTrack", id |-> snap[c].id, outcome |-> "ok"])
    /\ UNCHANGED <<pushed, now, locals, acked, storage, files, objects>>

AddClipCall(id, outcome, message) ==
    [op |-> "addClip", id |-> id, outcome |-> outcome, message |-> message]

\* addClip up to "await get(this.timelineRef)".
AddClipStart(c, ids, trackIds, clipDatas) ==
    /\ pc[c] = "idle"
    /\ \E id \in ids, trackId \in trackIds, clipData \in clipDatas :
           /\ id \in objects
           /\ Len(acked[id]) + InFlight(AddClipAwaits) < MaxClips
           /\ Suspend(c, "addClip:1184",
                      [id |-> id, trackId |-> trackId, clipData |-> clipData])
    /\ UNCHANGED <<timelines, pushed, now, locals, acked, storage, files, objects>>

\* The timeline has been read: the clip is pushed onto its track and the
\* duration recomputed, up to "await set(this.timelineRef, timeline)".
AddClipTimeline(c, times) ==
    /\ pc[c] = "addClip:1184"
    /\ LET id == snap[c].id
           timeline == timelines[id]
           trackIndex == TrackIndex(TracksOf(timeline), snap[c].trackId)
       IN  IF timeline = NoNode
           THEN /\ Finish(c, AddClipCall(id, "error", "TypeError"))
                /\ now' = now
           ELSE IF ~Has(timeline, "tracks")
           THEN /\ Finish(c, AddClipCall(id, "error", "no-tracks"))
                /\ now' = now
           ELSE IF trackIndex = 0
           THEN /\ Finish(c, AddClipCall(id, "error", "track-not-found"))
                /\ now' = now
           ELSE \E t \in Readings(now, 2, times) :
                    /\ Suspend(c, "addClip:1221",
                               [id |-> id,
                                clip |-> NewClip(snap[c].clipData, t[1]),
                                timeline |-> TimelineWithClip(
                                                 timeline, trackIndex,
                                                 NewClip(snap[c].clipData, t[1]),
                                                 t[2])])
                    /\ now' = t[2]
    /\ UNCHANGED <<timelines, pushed, locals, acked, storage, files, objects>>

\* The set takes effect: the stored node is replaced by the timeline that
\* was read, with the clip added; addClip returns the clip.
AddClipSet(c) ==
    /\ pc[c] = "addClip:1221"
    /\ timelines' = [timelines EXCEPT ![snap[c].id] = snap[c].timeline]
    /\ acked' = [acked EXCEPT ![snap[c].id] = Append(@, snap[c].clip)]
    /\ Finish(c, AddClipCall(snap[c].id, "ok", ""))
    /\ UNCHANGED <<pushed, now, locals, storage, files, objects>>

----------------------------------------------------------------------------
(* EDL export: formatTC and generateCMX3600EDL (the client's                *)
(* _generateCMX3600EDL is the same text but for the framerate), the cloud   *)
(* function exportTimelineEDL and the client's Timeline.exportEDL.          *)
(* A text is the sequence of its characters.  formatTC takes its seconds in *)
(* quarter seconds, which floating point holds exactly.                     *)

DigitChar == <<"0", "1", "2", "3", "4", "5", "6", "7", "8", "9">>

RECURSIVE Digits(_)
Digits(n) ==
    IF n < 10 THEN <<DigitChar[n + 1]>>
    ELSE Digits(n \div 10) \o <<DigitChar[(n % 10) + 1]>>

\* Number.prototype.toString of an integer or NaN; -0 prints as "0".
NumberToString(n) ==
    IF n = NaN THEN <<"N", "a", "N">>
    ELSE IF n < 0 THEN <<"-">> \o Digits(-n)
    ELSE Digits(n)

RECURSIVE PadStart(_, _, _)
PadStart(text, targetLength, ch) ==
    IF Len(text) >= targetLength THEN text
    ELSE PadStart(<<ch>> \o text, targetLength, ch)

\* a % b of JavaScript for b > 0: the remainder has the sign of a.
JsRem(a, b) ==
    IF a = NaN THEN NaN
    ELSE IF a >= 0 THEN a % b
    ELSE -((-a) % b)

\* Math.floor(a / b) for b > 0.
FloorDiv(a, b) == IF a = NaN THEN NaN ELSE a \div b

\* A clip time, in whole seconds, as quarter seconds.
Quarters(seconds) == IF seconds = NaN THEN NaN ELSE 4 * seconds

\* The framerate formatTC multiplies by: timeline.framerate || 24 in the
\* cloud function, timeline.framerate in the client.
Framerate(path, tl) ==
    IF path = "cloud" /\ (tl.framerate = 0 \/ tl.framerate = NaN)
    THEN 24
    ELSE tl.framerate

\* formatTC(seconds), seconds given in quarter seconds.
FormatTC(quarters, framerate) ==
    LET h == FloorDiv(quarters, 3600 * 4)
        m == FloorDiv(JsRem(quarters, 3600 * 4), 60 * 4)
        s == FloorDiv(JsRem(quarters, 60 * 4), 4)
        f == IF quarters = NaN \/ framerate = NaN THEN NaN
             ELSE (JsRem(quarters, 4) * framerate) \div 4
    IN  PadStart(NumberToString(h), 2, "0") \o <<":">> \o PadStart(NumberToString(m), 2, "0")
            \o <<":">> \o PadStart(NumberToString(s), 2, "0")
            \o <<":">> \o PadStart(NumberToString(f), 2, "0")

\* An event that counts every other number: what C19 rules out.
NextEventNumberSkipping(eventNumber) == eventNumber + 2

\* eventNumber++.
NextEventNumber(eventNumber) == eventNumber + 1

\* The two lines the EDL gets for one clip.
EventOf(path, tl, clip, eventNumber) ==
    [number |-> PadStart(NumberToString(eventNumber), 3, "0"),
     reel |-> "AX",
     channel |-> "V",
     edit |-> "C",
     sourceStart |-> FormatTC(Quarters(clip.inPoint), Framerate(path, tl)),
     sourceEnd |-> FormatTC(Quarters(clip.outPoint), Framerate(path, tl)),
     recordStart |-> FormatTC(Quarters(clip.startTime), Framerate(path, tl)),
     recordEnd |-> FormatTC(Quarters(clip.endTime), Framerate(path, tl)),
     clipName |-> clip.assetId]

\* for (const clip of track.clips)
RECURSIVE ClipEvents(_, _, _, _, _)
ClipEvents(path, tl, clips, events, eventNumber) ==
    IF clips = <<>> THEN [events |-> events, eventNumber |-> eventNumber]
    ELSE ClipEvents(path, tl, Tail(clips),
                    Append(events, EventOf(path, tl, Head(clips), eventNumber)),
                    NextEventNumber(eventNumber))

\* for (const track of timeline.tracks)
RECURSIVE TrackEvents(_, _, _, _, _)
TrackEvents(path, tl, tracks, events, eventNumber) ==
    IF tracks = <<>> THEN events
    ELSE LET done == ClipEvents(path, tl, Head(tracks).clips, events, eventNumber)
         IN  TrackEvents(path, tl, Tail(tracks), done.events, done.eventNumber)

GenerateCMX3600EDL(path, tl) ==
    [title |-> tl.name,
     fcm |-> "NON-DROP FRAME",
     events |-> TrackEvents(path, tl, tl.tracks, <<>>, 1)]

\* A switch that takes every format named for CMX3600: what C18 rules out.
AnyFormatSupported(format) == IsSome(format)

\* case 'CMX3600' of the switch on format.
SupportedFormat(format) == format = Some("CMX3600")

\* The client's parameter defaults to 'CMX3600' when the caller gives none.
ExportFormat(path, format) ==
    IF path = "client" /\ format = None THEN Some("CMX3600") ELSE format


\* timeline.name.replace(/[^a-z0-9]/gi, '_').toLowerCase(), for the names
\* the timelines of the model are given.
LowerCaseName == ("Demo" :> "demo") @@ ("demo" :> "demo")

\* edlFileName: <name>_<Date.now()>.edl.
EdlFileName(name, ms) == [name |-> LowerCaseName[name], ms |-> ms]

\* path.join(os.tmpdir(), edlFileName).
TempFilePath(edlFileName) == [dir |-> "tmp", file |-> edlFileName]

\* Where the EDL file goes in the bucket: under the timeline's exports in
\* the cloud function, under edls/<id> in the client.
EdlFilePath(path, timelineId, edlFileName) ==
    [dir |-> IF path = "cloud" THEN "exports" ELSE "edls",
     timelineId |-> timelineId,
     file |-> edlFileName]

\* bucket.upload / uploadBytes: the file at the path is created or replaced.
Upload(bucket, filePath, content) ==
    [f \in (DOMAIN bucket) \cup {filePath} |->
        IF f = filePath THEN content ELSE bucket[f]]

Formats == {None, Some("CMX3600"), Some("FCPXML")}
Destinations == {None, Some("googleDrive")}

ExportArgs(id, auth, format, destination) ==
    [id |-> id, auth |-> auth, format |-> format, destination |-> destination]

\* An export that threw, or was refused: it stored no exportHistory record.
ExportCall(path, args, outcome, message) ==
    [op |-> "exportEDL", path |-> path, id |-> args.id, auth |-> args.auth,
     format |-> args.format, destination |-> args.destination,
     outcome |-> outcome, message |-> message, key |-> None]

\* An export that returned the URL, with the key of the exportHistory
\* record it stored.
ExportReturn(path, args, key) ==
    [op |-> "exportEDL", path |-> path, id |-> args.id, auth |-> args.auth,
     format |-> args.format, destination |-> args.destination,
     outcome |-> "ok", message |-> "", key |-> Some(key)]

\* fs.writeFileSync: the file at the path is created or replaced.
WriteFileSync(dir, filePath, content) ==
    [f \in (DOMAIN dir) \cup {filePath} |->
        IF f = filePath THEN content ELSE dir[f]]

\* fs.unlinkSync: the file is removed; with no file at the path it throws
\* ENOENT (ok is FALSE).
UnlinkSync(dir, filePath) ==
    IF filePath \in DOMAIN dir
    THEN [ok |-> TRUE, files |-> [f \in (DOMAIN dir) \ {filePath} |-> dir[f]]]
    ELSE [ok |-> FALSE, files |-> dir]

\* The stream fs.createReadStream made opens its path: it finds the file
\* that is there at that moment, or none.
OpenReadStream(dir, filePath) == filePath \in DOMAIN dir

\* saveToGoogleDrive called with a filePath: it writes no file of its own and
\* uploads a read stream of filePath; the request fails with ENOENT when the
\* stream found no file.
SaveToGoogleDrive(opened) ==
    IF opened
    THEN [ok |-> TRUE, id |-> Some("drive-file"), message |-> ""]
    ELSE [ok |-> FALSE, id |-> None, message |-> "ENOENT"]

\* The awaits of the two exports.
ExportTimelineEDLAwaits ==
    {"exportTimelineEDL:585", "exportTimelineEDL:617", "exportTimelineEDL:625",
     "saveToGoogleDrive:726", "saveToGoogleDrive:718", "exportTimelineEDL:641"}

ExportEDLAwaits == {"exportEDL:1059", "exportEDL:1082", "exportEDL:1085", "exportEDL:1097"}

ExportAwaits == ExportTimelineEDLAwaits \cup ExportEDLAwaits

\* The record is set at timelines/<id>/exportHistory/<key>, the key push()
\* generated for it: the history lists its records in the order of their
\* keys.
WithExport(node, key, record) ==
    Update(node,
           [exportHistory |->
               [k \in (DOMAIN ExportHistoryOf(node)) \cup {key} |->
                   IF k = key THEN record ELSE ExportHistoryOf(node)[k]]])

\* exportTimelineEDL up to its first await, the read of the timeline.  The
\* authentication check is outside the try block; an error thrown inside it
\* reaches the caller as 'internal', with the message it was thrown with.
ExportTimelineEDLStart(c, auths, ids, formats, destinations) ==
    /\ pc[c] = "idle"
    /\ pushed.exports + InFlight(ExportAwaits) < MaxExports
    /\ \E auth \in auths, id \in ids, format \in formats,
          destination \in destinations :
           LET args == ExportArgs(id, auth, format, destination)
           IN  IF ~Authenticated(auth)
               THEN Finish(c, ExportCall("cloud", args, "unauthenticated",
                                         "unauthenticated"))
               ELSE IF id = NoTimelineId
               THEN Finish(c, ExportCall("cloud", args, "invalid-argument",
                                         "invalid-argument"))
               ELSE Suspend(c, "exportTimelineEDL:585", args)
    /\ UNCHANGED <<timelines, pushed, now, locals, acked, storage, files, objects>>

\* The timeline has been read: the checks, the EDL text, the file name and
\* the temporary file, up to "await bucket.upload(...)".
ExportTimelineEDLTimeline(c, times) ==
    /\ pc[c] = "exportTimelineEDL:585"
    /\ LET args == snap[c]
           timeline == timelines[args.id]
       IN  IF timeline = NoNode
           THEN /\ Finish(c, ExportCall("cloud", args, "internal", "not-found"))
                /\ UNCHANGED <<now, files>>
           ELSE IF TracksOf(timeline) = <<>>
           THEN /\ Finish(c, ExportCall("cloud", args, "internal",
                                        "no-tracks-or-clips"))
                /\ UNCHANGED <<now, files>>
           ELSE IF ~SupportedFormat(args.format)
           THEN /\ Finish(c, ExportCall("cloud", args, "internal",
                                        "unsupported-format"))
                /\ UNCHANGED <<now, files>>
           ELSE IF ~Has(timeline, "name")
           THEN /\ Finish(c, ExportCall("cloud", args, "internal", "TypeError"))
                /\ UNCHANGED <<now, files>>
           ELSE \E ms \in After(now, times) :
                    LET edlContent == GenerateCMX3600EDL("cloud", timeline)
                        edlFileName == EdlFileName(timeline.name, ms)
                    IN  /\ files' = WriteFileSync(files, TempFilePath(edlFileName),
                                                  edlContent)
                        /\ Suspend(c, "exportTimelineEDL:617",
                                   [args |-> args, edlContent |-> edlContent,
                                    edlFileName |-> edlFileName])
                        /\ now' = ms
    /\ UNCHANGED <<timelines, pushed, locals, acked, storage, objects>>

\* The upload of the temporary file takes effect, or fails for want of the
\* file; on to "await ...getSignedUrl(...)".
ExportTimelineEDLUpload(c) ==
    /\ pc[c] = "exportTimelineEDL:617"
    /\ LET tempFilePath == TempFilePath(snap[c].edlFileName)
       IN  IF tempFilePath \notin DOMAIN files
           THEN /\ Finish(c, ExportCall("cloud", snap[c].args, "internal", "ENOENT"))
                /\ UNCHANGED storage
           ELSE /\ storage' = Upload(storage,
                                     EdlFilePath("cloud", snap[c].args.id,
                                                 snap[c].edlFileName),
                                     files[tempFilePath])
                /\ Suspend(c, "exportTimelineEDL:625", snap[c])
    /\ UNCHANGED <<timelines, pushed, now, locals, acked, files, objects>>

\* The signed URL is there: the temporary file is unlinked; on to the save
\* to Google Drive when that is the destination, which makes a read stream
\* of the temporary path and its request, and else to the export history
\* record, whose key push() generates.
ExportTimelineEDLSignedUrl(c) ==
    /\ pc[c] = "exportTimelineEDL:625"
    /\ LET unlinked == UnlinkSync(files, TempFilePath(snap[c].edlFileName))
           frame == [args |-> snap[c].args, edlFileName |-> snap[c].edlFileName]
       IN  IF ~unlinked.ok
           THEN /\ Finish(c, ExportCall("cloud", snap[c].args, "internal", "ENOENT"))
                /\ UNCHANGED <<files, pushed>>
           ELSE /\ files' = unlinked.files
                /\ IF snap[c].args.destination = Some("googleDrive")
                   THEN /\ Suspend(c, "saveToGoogleDrive:726", frame)
                        /\ UNCHANGED pushed
                   ELSE /\ Suspend(c, "exportTimelineEDL:641",
                                   [args |-> frame.args,
                                    edlFileName |-> frame.edlFileName,
                                    key |-> pushed.exports + 1,
                                    driveFileId |-> None])
                        /\ pushed' = [pushed EXCEPT !.exports = @ + 1]
    /\ UNCHANGED <<timelines, now, locals, acked, storage, objects>>

\* The read stream opens the temporary path, at some moment between the
\* call of drive.files.create and the end of its request.
SaveToGoogleDriveOpen(c) ==
    /\ pc[c] = "saveToGoogleDrive:726"
    /\ Suspend(c, "saveToGoogleDrive:718",
               [args |-> snap[c].args,
                edlFileName |-> snap[c].edlFileName,
                opened |-> OpenReadStream(files, TempFilePath(snap[c].edlFileName))])
    /\ UNCHANGED <<timelines, pushed, now, locals, acked, storage, files, objects>>

\* The request of drive.files.create ends: the file's id in Drive, or
\* ENOENT; on to the export history record.
ExportTimelineEDLDrive(c) ==
    /\ pc[c] = "saveToGoogleDrive:718"
    /\ LET saved == SaveToGoogleDrive(snap[c].opened)
       IN  IF ~saved.ok
           THEN /\ Finish(c, ExportCall("cloud", snap[c].args, "internal",
                                        saved.message))
                /\ UNCHANGED pushed
           ELSE /\ Suspend(c, "exportTimelineEDL:641",
                           [args |-> snap[c].args,
                            edlFileName |-> snap[c].edlFileName,
                            key |-> pushed.exports + 1,
                            driveFileId |-> saved.id])
                /\ pushed' = [pushed EXCEPT !.exports = @ + 1]
    /\ UNCHANGED <<timelines, now, locals, acked, storage, files, objects>>

\* The export history record is stored, with the server's time for its
\* timestamp, and the function returns the URL.
ExportTimelineEDLHistory(c, times) ==
    /\ pc[c] = "exportTimelineEDL:641"
    /\ \E ts \in After(now, times) :
           /\ timelines' = [timelines EXCEPT ![snap[c].args.id] =
                               WithExport(@, snap[c].key,
                                          [id |-> snap[c].key,
                                           timestamp |-> ts,
                                           format |-> snap[c].args.format[1],
                                           url |-> EdlFilePath("cloud",
                                                               snap[c].args.id,
                                                               snap[c].edlFileName),
                                           driveFileId |-> snap[c].driveFileId])]
           /\ now' = ts
    /\ Finish(c, ExportReturn("cloud", snap[c].args, snap[c].key))
    /\ UNCHANGED <<pushed, locals, acked, storage, files, objects>>

\* Timeline.exportEDL up to its first await, the read of the timeline.
ExportEDLStart(c, ids, formats, destinations) ==
    /\ pc[c] = "idle"
    /\ pushed.exports + InFlight(ExportAwaits) < MaxExports
    /\ \E id \in ids, format \in formats, destination \in destinations :
           /\ id \in objects
           /\ Suspend(c, "exportEDL:1059", ExportArgs(id, TRUE, format, destination))
    /\ UNCHANGED <<timelines, pushed, now, locals, acked, storage, files, objects>>

\* The timeline has been read: the checks, the EDL text and the file name,
\* up to "await uploadBytes(...)".  An error thrown reaches the caller as
\* thrown.
ExportEDLTimeline(c, times) ==
    /\ pc[c] = "exportEDL:1059"
    /\ LET args == snap[c]
           timeline == timelines[args.id]
       IN  IF timeline = NoNode
           THEN /\ Finish(c, ExportCall("client", args, "error", "TypeError"))
                /\ now' = now
           ELSE IF TracksOf(timeline) = <<>>
           THEN /\ Finish(c, ExportCall("client", args, "error", "no-tracks-or-clips"))
                /\ now' = now
           ELSE IF ~SupportedFormat(ExportFormat("client", args.format))
           THEN /\ Finish(c, ExportCall("client", args, "error", "unsupported-format"))
                /\ now' = now
           ELSE IF ~Has(timeline, "name")
           THEN /\ Finish(c, ExportCall("client", args, "error", "TypeError"))
                /\ now' = now
           ELSE \E ms \in After(now, times) :
                    /\ Suspend(c, "exportEDL:1082",
                               [args |-> args,
                                edlContent |-> GenerateCMX3600EDL("client", timeline),
                                edlFileName |-> EdlFileName(timeline.name, ms)])
                    /\ now' = ms
    /\ UNCHANGED <<timelines, pushed, locals, acked, storage, files, objects>>

\* The upload takes effect; on to "await getDownloadURL(edlFileRef)".
ExportEDLUpload(c) ==
    /\ pc[c] = "exportEDL:1082"
    /\ storage' = Upload(storage,
                         EdlFilePath("client", snap[c].args.id, snap[c].edlFileName),
                         snap[c].edlContent)
    /\ Suspend(c, "exportEDL:1085", snap[c])
    /\ UNCHANGED <<timelines, pushed, now, locals, acked, files, objects>>

\* The download URL is there; a Drive destination is only logged; on to the
\* export history record, whose key push() generates.
ExportEDLDownloadURL(c, times) ==
    /\ pc[c] = "exportEDL:1085"
    /\ \E ts \in After(now, times) :
           /\ Suspend(c, "exportEDL:1097",
                      [args |-> snap[c].args,
                       key |-> pushed.exports + 1,
                       record |-> [timestamp |-> ts,
                                   format |-> ExportFormat("client",
                                                           snap[c].args.format)[1],
                                   url |-> EdlFilePath("client", snap[c].args.id,
                                                       snap[c].edlFileName)]])
           /\ now' = ts
    /\ pushed' = [pushed EXCEPT !.exports = @ + 1]
    /\ UNCHANGED <<timelines, locals, acked, storage, files, objects>>

\* The export history record is stored and exportEDL returns the URL.
ExportEDLHistory(c) ==
    /\ pc[c] = "exportEDL:1097"
    /\ timelines' = [timelines EXCEPT ![snap[c].args.id] =
                        WithExport(@, snap[c].key, snap[c].record)]
    /\ Finish(c, ExportReturn("client", snap[c].args, snap[c].key))
    /\ UNCHANGED <<pushed, now, locals, acked, storage, files, objects>>

----------------------------------------------------------------------------
(* The storage trigger processMediaUpload, with extractMediaMetadata,      *)
(* generateThumbnail and analyzeMediaContent.  It runs once for each       *)
(* object that is finalized in the bucket, and stores one asset record.    *)
(* A file name is its base name and its extension; an object's name is     *)
(* the sequence of the segments of its path.                               *)

\* contentType.startsWith('video/') and contentType.startsWith('audio/').
IsVideo(contentType) == contentType.type = "video"
IsAudio(contentType) == contentType.type = "audio"

\* The test on filePath.split('/'): projects/<p>/timelines/<id>/media/<file>.
ValidPath(pathSegments) ==
    /\ Len(pathSegments) >= 6
    /\ pathSegments[1] = "projects"
    /\ pathSegments[3] = "timelines"
    /\ pathSegments[5] = "media"

\* The name of a media file uploaded for the timeline.
MediaPath(timelineId, fileName) ==
    <<"projects", "p", "timelines", timelineId, "media", fileName>>

\* The objects finalized in the bucket: media files uploaded for the
\* timelines, and with them a file that is no media file and a media file
\* at another path.
MediaObjects(ids, contentTypes, fileNames) ==
    {[contentType |-> contentType, name |-> MediaPath(id, fileName)] :
        id \in ids, contentType \in contentTypes, fileName \in fileNames}

Audio == [type |-> "audio", subtype |-> "mpeg"]
Video == [type |-> "video", subtype |-> "mp4"]
FileA == [base |-> "a", ext |-> "mp3"]
FileB == [base |-> "b", ext |-> "mp4"]

OtherObjects ==
    {[contentType |-> [type |-> "text", subtype |-> "plain"],
      name |-> MediaPath(1, [base |-> "notes", ext |-> "txt"])],
     [contentType |-> Audio, name |-> <<"uploads", FileA>>]}

\* path.join(os.tmpdir(), fileName).
MediaTempPath(fileName) == [dir |-> "tmp", file |-> fileName]

\* The thumbnail's file, <base>_thumb.jpg, in os.tmpdir() and in the bucket.
ThumbnailFilename(fileName) == [base |-> fileName.base, suffix |-> "_thumb.jpg"]

ThumbnailTempPath(fileName) == [dir |-> "tmp", file |-> ThumbnailFilename(fileName)]

ThumbnailStoragePath(timelineId, fileName) ==
    [dir |-> "thumbnails", timelineId |-> timelineId,
     file |-> ThumbnailFilename(fileName)]

\* The frame analyzeMediaContent extracts: <fileName>_analysis_frame.jpg.
AnalysisFramePath(fileName) ==
    [dir |-> "tmp",
     file |-> [base |-> fileName.base, ext |-> fileName.ext,
               suffix |-> "_analysis_frame.jpg"]]

\* The result of extractMediaMetadata, as far as it is read later:
\* duration is format.duration || 0.
MediaMetadata(duration) == [duration |-> OrElse(duration, 0)]

\* What analyzeMediaContent returns for an audio file, and when it catches
\* an error: an object without a scene.
NoAnalysis == None

\* The durations ffprobe reports: none, or three seconds.
ProbedDurations == {None, Some(3)}

\* The scene of the JSON the Gemini model answers with, if it names one.
Analyses == {None, Some("x")}

\* The asset record processMediaUpload stores, as far as it is read later;
\* uploadTime is the server's time when the set takes effect.
UploadedAsset(frame, uploadTime) ==
    AssetRecord(frame.assetId,
                AssetShape(None, uploadTime, Some(frame.metadata.duration), None,
                           frame.analysis))

UploadAwaits ==
    {"processMediaUpload:218", "processMediaUpload:222", "generateThumbnail:320",
     "generateThumbnail:324", "generateThumbnail:332", "analyzeMediaContent:370",
     "analyzeMediaContent:371", "analyzeMediaContent:394", "processMediaUpload:237"}

UploadCall(timelineId, outcome, message) ==
    [op |-> "processMediaUpload", id |-> timelineId, outcome |-> outcome,
     message |-> message]

\* The catch of processMediaUpload: it returns { success: false, error }.
UploadFails(c, message) ==
    Finish(c, UploadCall(snap[c].timelineId, "success-false", message))

\* The analysis is there: Date.now() is read for the asset's id, and the
\* record is set, up to "await ...ref(.../assets/<assetId>).set(...)".
UploadAnalysed(c, analysis, times) ==
    \E ms \in After(now, times) :
        /\ Suspend(c, "processMediaUpload:237",
                   [timelineId |-> snap[c].timelineId,
                    fileName |-> snap[c].fileName,
                    metadata |-> snap[c].metadata,
                    analysis |-> analysis,
                    assetId |-> ms])
        /\ now' = ms

\* processMediaUpload up to its first await, the download of the object.
\* It is run for a timeline while MaxAssets is not reached.
ProcessMediaUploadStart(c, objs) ==
    /\ pc[c] = "idle"
    /\ \E object \in objs :
           IF ~IsVideo(object.contentType) /\ ~IsAudio(object.contentType)
           THEN Finish(c, UploadCall(NoTimelineId, "return", "not-media"))
           ELSE IF ~ValidPath(object.name)
           THEN Finish(c, UploadCall(NoTimelineId, "return", "invalid-path"))
           ELSE /\ Len(AssetsOf(timelines[object.name[4]])) + InFlight(UploadAwaits)
                       < MaxAssets
                /\ Suspend(c, "processMediaUpload:218",
                           [timelineId |-> object.name[4],
                            fileName |-> object.name[6],
                            contentType |-> object.contentType])
    /\ UNCHANGED <<timelines, pushed, now, locals, acked, storage, files, objects>>

\* The download takes effect: the file is in os.tmpdir(); on to the ffprobe
\* of extractMediaMetadata.
ProcessMediaUploadDownload(c) ==
    /\ pc[c] = "processMediaUpload:218"
    /\ files' = WriteFileSync(files, MediaTempPath(snap[c].fileName),
                              [media |-> snap[c].fileName])
    /\ Suspend(c, "processMediaUpload:222", snap[c])
    /\ UNCHANGED <<timelines, pushed, now, locals, acked, storage, objects>>

\* ffprobe has read the file, or failed for want of it.  For a video, on to
\* the screenshot of generateThumbnail; for an audio file
\* analyzeMediaContent returns at once, and on to the set of the record.
ProcessMediaUploadMetadata(c, durations, times) ==
    /\ pc[c] = "processMediaUpload:222"
    /\ IF MediaTempPath(snap[c].fileName) \notin DOMAIN files
       THEN /\ UploadFails(c, "ENOENT")
            /\ now' = now
       ELSE \E duration \in durations :
                LET frame == [timelineId |-> snap[c].timelineId,
                              fileName |-> snap[c].fileName,
                              metadata |-> MediaMetadata(duration)]
                IN  IF IsVideo(snap[c].contentType)
                    THEN /\ Suspend(c, "generateThumbnail:320", frame)
                         /\ now' = now
                    ELSE \E ms \in After(now, times) :
                             /\ Suspend(c, "processMediaUpload:237",
                                        [timelineId |-> frame.timelineId,
                                         fileName |-> frame.fileName,
                                         metadata |-> frame.metadata,
                                         analysis |-> NoAnalysis,
                                         assetId |-> ms])
                             /\ now' = ms
    /\ UNCHANGED <<timelines, pushed, locals, acked, storage, files, objects>>

\* ffmpeg has read the file, or failed for want of it, and written the
\* thumbnail into os.tmpdir(); the 'end' handler runs up to
\* "await bucket.upload(thumbnailTempPath, ...)".
GenerateThumbnailScreenshots(c) ==
    /\ pc[c] = "generateThumbnail:320"
    /\ IF MediaTempPath(snap[c].fileName) \notin DOMAIN files
       THEN /\ UploadFails(c, "ENOENT")
            /\ files' = files
       ELSE /\ files' = WriteFileSync(files, ThumbnailTempPath(snap[c].fileName),
                                      [thumbnail |-> snap[c].fileName])
            /\ Suspend(c, "generateThumbnail:324", snap[c])
    /\ UNCHANGED <<timelines, pushed, now, locals, acked, storage, objects>>

\* The upload of the thumbnail takes effect, or fails for want of the file;
\* on to "await ...getSignedUrl(...)".
GenerateThumbnailUpload(c) ==
    /\ pc[c] = "generateThumbnail:324"
    /\ LET thumbnailTempPath == ThumbnailTempPath(snap[c].fileName)
       IN  IF thumbnailTempPath \notin DOMAIN files
           THEN /\ UploadFails(c, "ENOENT")
                /\ storage' = storage
           ELSE /\ storage' = Upload(storage,
                                     ThumbnailStoragePath(snap[c].timelineId,
                                                          snap[c].fileName),
                                     files[thumbnailTempPath])
                /\ Suspend(c, "generateThumbnail:332", snap[c])
    /\ UNCHANGED <<timelines, pushed, now, locals, acked, files, objects>>

\* The signed URL is there: the thumbnail's temporary file is unlinked and
\* generateThumbnail resolves; analyzeMediaContent starts the screenshot of
\* its frame.
GenerateThumbnailSignedUrl(c) ==
    /\ pc[c] = "generateThumbnail:332"
    /\ LET unlinked == UnlinkSync(files, ThumbnailTempPath(snap[c].fileName))
       IN  IF ~unlinked.ok
           THEN /\ UploadFails(c, "ENOENT")
                /\ files' = files
           ELSE /\ files' = unlinked.files
                /\ Suspend(c, "analyzeMediaContent:370", snap[c])
    /\ UNCHANGED <<timelines, pushed, now, locals, acked, storage, objects>>

\* ffmpeg has read the file and written the frame into os.tmpdir(), its
\* 'end' event still to come; or it failed for want of the file, and
\* analyzeMediaContent catches the error and returns.
AnalyzeMediaContentScreenshots(c, times) ==
    /\ pc[c] = "analyzeMediaContent:370"
    /\ IF MediaTempPath(snap[c].fileName) \notin DOMAIN files
       THEN /\ UploadAnalysed(c, NoAnalysis, times)
            /\ files' = files
       ELSE /\ files' = WriteFileSync(files, AnalysisFramePath(snap[c].fileName),
                                      [frame |-> snap[c].fileName])
            /\ Suspend(c, "analyzeMediaContent:371", snap[c])
            /\ now' = now
    /\ UNCHANGED <<timelines, pushed, locals, acked, storage, objects>>

\* The 'end' event: the frame is read and unlinked, up to
\* "await model.generateContent(...)"; with no frame to read,
\* analyzeMediaContent catches the error and returns.
AnalyzeMediaContentFrame(c, times) ==
    /\ pc[c] = "analyzeMediaContent:371"
    /\ LET unlinked == UnlinkSync(files, AnalysisFramePath(snap[c].fileName))
       IN  IF ~unlinked.ok
           THEN /\ UploadAnalysed(c, NoAnalysis, times)
                /\ files' = files
           ELSE /\ files' = unlinked.files
                /\ Suspend(c, "analyzeMediaContent:394", snap[c])
                /\ now' = now
    /\ UNCHANGED <<timelines, pushed, locals, acked, storage, objects>>

\* The model has answered: its JSON is the analysis.
AnalyzeMediaContentResult(c, analyses, times) ==
    /\ pc[c] = "analyzeMediaContent:394"
    /\ \E analysis \in analyses : UploadAnalysed(c, analysis, times)
    /\ UNCHANGED <<timelines, pushed, locals, acked, storage, files, objects>>

\* The set takes effect: the record is stored at assets/<assetId>, with the
\* server's time for uploadTime, in place of a record of the same id; the
\* temporary file is unlinked, and for want of it the function returns
\* { success: false } with the record stored.
ProcessMediaUploadSet(c, times) ==
    /\ pc[c] = "processMediaUpload:237"
    /\ \E ts \in After(now, times) :
           /\ timelines' =
                  [timelines EXCEPT ![snap[c].timelineId] =
                      Update(@, [assets |->
                                    InsertAsset(AssetsOf(@),
                                                UploadedAsset(snap[c], ts))])]
           /\ now' = ts
    /\ LET unlinked == UnlinkSync(files, MediaTempPath(snap[c].fileName))
       IN  IF unlinked.ok
           THEN /\ files' = unlinked.files
                /\ Finish(c, UploadCall(snap[c].timelineId, "ok", ""))
           ELSE /\ files' = files
                /\ UploadFails(c, "ENOENT")
    /\ UNCHANGED <<pushed, locals, acked, storage, objects>>
----------------------------------------------------------------------------
(* The specifications.  The constructor connects to a project that holds   *)
(* no timeline yet, or one timeline with the assets stored for it earlier. *)
(* Where calls follow one another, caller 1 makes them, each starting when *)
(* no call is under way.                                                   *)

\* The project as the constructor finds it, with the stored node, if any,
\* under the first push key.
InitWith(nodes) ==
    /\ \E node \in nodes :
           /\ timelines = [id \in Keys |-> IF id = 1 THEN node ELSE NoNode]
           /\ pushed = [timelines |-> IF node = NoNode THEN 0 ELSE 1, exports |-> 0]
    /\ now = StartTime
    /\ pc = Idle
    /\ snap = NoSnap
    /\ call = [op |-> "none", id |-> NoTimelineId, outcome |-> "ok"]
    /\ locals = NoLocals
    /\ acked = [id \in Keys |-> <<>>]
    /\ storage = <<>>
    /\ files = <<>>
    /\ objects = {}

\* The timelines a project holds from the start: without assets, or with
\* one of the catalogues.
StoredTimelines(catalogues) ==
    {StoredTimeline(options, catalogue) :
        options \in DefaultOptions, catalogue \in {<<>>} \cup catalogues}

\* The empty project, or one that holds a timeline.
Init == InitWith({NoNode} \cup StoredTimelines(Catalogues(EditShapes)))

\* The times the clock gives: every millisecond of the model; or, for calls
\* that all fall within one millisecond, that one; or, for calls that come
\* after all others, the last.
Times == StartTime..(StartTime + MaxNow)
OneTime == {StartTime}
LastTime == {StartTime + MaxNow}

\* The key createTimeline generated last, if it has generated one.
Latest == {pushed.timelines} \cap Keys

\* The trackIds addClip is called with: track-<ms> for the times of the model.
TrackIds == Times

\* The timelines hold no asset but those uploaded since the start.
OnlyUploads ==
    \A id \in Keys : \A i \in 1..Len(AssetsOf(timelines[id])) :
        timelines[id].assets[i].id >= StartTime

\* The media files uploaded for the timelines: an audio file and a video.
Uploads(ids) ==
    MediaObjects(ids, {Audio}, {FileA}) \cup MediaObjects(ids, {Video}, {FileB})

\* Calls that follow one another: getTimeline and deleteTimeline for any
\* timeline id, listTimelines, createTimeline when no timeline is stored,
\* and for the timeline of the latest push key the upload of an audio file,
\* addMediaFromDrive, the editing operations and both auto-assemblies.
Next ==
    \/ Quiet /\ ProcessMediaUploadStart(1, MediaObjects(Latest, {Audio}, {FileA}))
    \/ ProcessMediaUploadDownload(1)
    \/ ProcessMediaUploadMetadata(1, {Some(3)}, OneTime)
    \/ ProcessMediaUploadSet(1, OneTime)
    \/ Quiet /\ (\A id \in Keys : timelines[id] = NoNode)
             /\ CreateTimelineStart(1, TimelineOptions, OneTime)
    \/ CreateTimelineSet(1)
    \/ Quiet /\ GetTimelineStart(1, Keys)
    \/ GetTimelineGet(1)
    \/ Quiet /\ ListTimelinesStart(1)
    \/ ListTimelinesGet(1)
    \/ Quiet /\ DeleteTimelineStart(1, Keys)
    \/ DeleteTimelineRemove(1)
    \/ Quiet /\ AddMediaFromDriveStart(1, Latest, OneTime)
    \/ AddMediaFromDriveUpdate(1)
    \/ Quiet /\ AddTrackStart(1, Latest, TrackTypes)
    \/ AddTrackTracks(1, OneTime)
    \/ AddTrackUpdate(1)
    \/ Quiet /\ AddClipStart(1, Latest, OneTime, EditClipData)
    \/ AddClipTimeline(1, OneTime)
    \/ AddClipSet(1)
    \/ Quiet /\ AutoAssembleCloudStart(1, {TRUE}, {NoTimelineId} \cup Latest, {Some("chronological")},
                                       {Some("scene")}, {TRUE})
    \/ AutoAssembleCloudTimeline(1)
    \/ AutoAssembleCloudAssets(1, {0}, OneTime)
    \/ AutoAssembleCloudUpdate(1, OneTime)
    \/ Quiet /\ AutoAssembleClientStart(1, Latest, {Some("chronological")},
                                        {Some("scene")}, {TRUE})
    \/ AutoAssembleClientAssets(1, {0}, OneTime)
    \/ AutoAssembleClientUpdate(1)

Spec == Init /\ [][Next]_vars

\* Auto-assembly of one timeline over catalogues that differ in duration:
\* those the project holds from the start, and those that uploads of an
\* audio file make where it held none.
InitAssemble == InitWith(StoredTimelines(Catalogues(DurationShapes)))

NextAssemble ==
    \/ Quiet /\ OnlyUploads
             /\ ProcessMediaUploadStart(1, MediaObjects({1}, {Audio}, {FileA}))
    \/ ProcessMediaUploadDownload(1)
    \/ ProcessMediaUploadMetadata(1, ProbedDurations, Times)
    \/ ProcessMediaUploadSet(1, Times)
    \/ Quiet /\ GetTimelineStart(1, {1})
    \/ GetTimelineGet(1)
    \/ Quiet /\ AutoAssembleCloudStart(1, BOOLEAN, {1}, {Some("chronological")},
                                       GroupBys, BOOLEAN)
    \/ AutoAssembleCloudTimeline(1)
    \/ AutoAssembleCloudAssets(1, {0}, Times)
    \/ AutoAssembleCloudUpdate(1, Times)
    \/ Quiet /\ AutoAssembleClientStart(1, {1}, {Some("chronological")}, GroupBys,
                                        BOOLEAN)
    \/ AutoAssembleClientAssets(1, {0}, Times)
    \/ AutoAssembleClientUpdate(1)

SpecAssemble == InitAssemble /\ [][NextAssemble]_vars

\* Auto-assembly over catalogues that differ in timestamp and uploadTime:
\* those the project holds from the start, and those that the uploads of an
\* audio file and a video make, for any timeline id, where it held none.
InitOrder == InitWith(StoredTimelines(Catalogues(OrderShapes)))

NextOrder ==
    \/ Quiet /\ OnlyUploads /\ ProcessMediaUploadStart(1, Uploads(Keys) \cup OtherObjects)
    \/ ProcessMediaUploadDownload(1)
    \/ ProcessMediaUploadMetadata(1, {Some(3)}, Times)
    \/ GenerateThumbnailScreenshots(1)
    \/ GenerateThumbnailUpload(1)
    \/ GenerateThumbnailSignedUrl(1)
    \/ AnalyzeMediaContentScreenshots(1, Times)
    \/ AnalyzeMediaContentFrame(1, Times)
    \/ AnalyzeMediaContentResult(1, {None}, Times)
    \/ ProcessMediaUploadSet(1, Times)
    \/ Quiet /\ GetTimelineStart(1, {1})
    \/ GetTimelineGet(1)
    \/ Quiet /\ AutoAssembleCloudStart(1, {TRUE}, {1}, Strategies, {None}, {FALSE})
    \/ AutoAssembleCloudTimeline(1)
    \/ AutoAssembleCloudAssets(1, {0}, Times)
    \/ AutoAssembleCloudUpdate(1, Times)
    \/ Quiet /\ AutoAssembleClientStart(1, {1}, Strategies, {None}, {FALSE})
    \/ AutoAssembleClientAssets(1, {0}, Times)
    \/ AutoAssembleClientUpdate(1)

SpecOrder == InitOrder /\ [][NextOrder]_vars

\* The groupBy options: omitted, the empty string, 'scene'.
GroupByOptions == GroupBys \cup {Some("")}

\* Auto-assembly over catalogues that differ in the group key: those the
\* project holds from the start, and those that uploads of a video make
\* where it held none.
InitGroup == InitWith(StoredTimelines(Catalogues(GroupShapes)))

NextGroup ==
    \/ Quiet /\ OnlyUploads
             /\ ProcessMediaUploadStart(1, MediaObjects({1}, {Video}, {FileB}))
    \/ ProcessMediaUploadDownload(1)
    \/ ProcessMediaUploadMetadata(1, {Some(3)}, Times)
    \/ GenerateThumbnailScreenshots(1)
    \/ GenerateThumbnailUpload(1)
    \/ GenerateThumbnailSignedUrl(1)
    \/ AnalyzeMediaContentScreenshots(1, Times)
    \/ AnalyzeMediaContentFrame(1, Times)
    \/ AnalyzeMediaContentResult(1, Analyses, Times)
    \/ ProcessMediaUploadSet(1, Times)
    \/ Quiet /\ GetTimelineStart(1, {1})
    \/ GetTimelineGet(1)
    \/ Quiet /\ AutoAssembleCloudStart(1, {TRUE}, {1}, {Some("semantic")},
                                       GroupByOptions, {FALSE})
    \/ AutoAssembleCloudTimeline(1)
    \/ AutoAssembleCloudAssets(1, {0}, Times)
    \/ AutoAssembleCloudUpdate(1, Times)
    \/ Quiet /\ AutoAssembleClientStart(1, {1}, {Some("semantic")}, GroupByOptions,
                                        {FALSE})
    \/ AutoAssembleClientAssets(1, {0}, Times)
    \/ AutoAssembleClientUpdate(1)

SpecGroup == InitGroup /\ [][NextGroup]_vars

\* Callers whose calls for one timeline interleave at their awaits, among
\* them the upload of an audio file; addClip is called while the timeline
\* holds fewer than MaxClips clips, and caller 1 makes the auto-assembly
\* calls.
InitConc == InitWith(StoredTimelines(OneAssetCatalogues(EditShapes)))

NextConc ==
    \/ \E c \in Clients : ProcessMediaUploadStart(c, MediaObjects({1}, {Audio}, {FileA}))
    \/ \E c \in Clients : ProcessMediaUploadDownload(c)
    \/ \E c \in Clients : ProcessMediaUploadMetadata(c, {Some(3)}, OneTime)
    \/ \E c \in Clients : ProcessMediaUploadSet(c, OneTime)
    \/ \E c \in Clients : 1 \notin objects /\ GetTimelineStart(c, {1})
    \/ \E c \in Clients : GetTimelineGet(c)
    \/ \E c \in Clients : AddTrackStart(c, {1}, TrackTypes)
    \/ \E c \in Clients : AddTrackTracks(c, OneTime)
    \/ \E c \in Clients : AddTrackUpdate(c)
    \/ \E c \in Clients : /\ TotalClips(TracksOf(timelines[1])) < MaxClips
                          /\ AddClipStart(c, {1}, OneTime, ConcClipData)
    \/ \E c \in Clients : AddClipTimeline(c, OneTime)
    \/ \E c \in Clients : AddClipSet(c)
    \/ AutoAssembleCloudStart(1, {TRUE}, {1}, {Some("chronological")}, {Some("scene")},
                              {TRUE})
    \/ AutoAssembleCloudTimeline(1)
    \/ AutoAssembleCloudAssets(1, {0}, OneTime)
    \/ AutoAssembleCloudUpdate(1, OneTime)

SpecConc == InitConc /\ [][NextConc]_vars

\* Exports of timelines that auto-assembly and the editing operations built;
\* the timeline is left as it is once a file of it is in the bucket.  The
\* auto-assemblies fall within the first millisecond, the tracks are added
\* at any time from then on, the clips and the exports follow.
InitExport == InitWith(StoredTimelines(Catalogues(ExportShapes)))

NextExport ==
    \/ Quiet /\ 1 \notin objects /\ GetTimelineStart(1, {1})
    \/ GetTimelineGet(1)
    \/ Quiet /\ storage = <<>> /\ AddTrackStart(1, {1}, TrackTypes)
    \/ AddTrackTracks(1, Times)
    \/ AddTrackUpdate(1)
    \/ Quiet /\ storage = <<>> /\ AddClipStart(1, {1}, TrackIds, ExportClipData)
    \/ AddClipTimeline(1, LastTime)
    \/ AddClipSet(1)
    \/ Quiet /\ storage = <<>> /\ now = StartTime
             /\ AutoAssembleCloudStart(1, BOOLEAN, {1}, {Some("chronological")},
                                       {None}, {FALSE})
    \/ AutoAssembleCloudTimeline(1)
    \/ AutoAssembleCloudAssets(1, {0}, OneTime)
    \/ AutoAssembleCloudUpdate(1, OneTime)
    \/ Quiet /\ ExportTimelineEDLStart(1, BOOLEAN, {1}, Formats, Destinations)
    \/ ExportTimelineEDLTimeline(1, LastTime)
    \/ ExportTimelineEDLUpload(1)
    \/ ExportTimelineEDLSignedUrl(1)
    \/ SaveToGoogleDriveOpen(1)
    \/ ExportTimelineEDLDrive(1)
    \/ ExportTimelineEDLHistory(1, LastTime)
    \/ Quiet /\ ExportEDLStart(1, {1}, Formats, Destinations)
    \/ ExportEDLTimeline(1, LastTime)
    \/ ExportEDLUpload(1)
    \/ ExportEDLDownloadURL(1, LastTime)
    \/ ExportEDLHistory(1)

SpecExport == InitExport /\ [][NextExport]_vars

\* Exports of timelines of one name by callers whose calls interleave at
\* their awaits, in a project that starts empty.
InitExportConc == InitWith({NoNode})

NextExportConc ==
    \/ \E c \in Clients : CreateTimelineStart(c, DefaultOptions, OneTime)
    \/ \E c \in Clients : CreateTimelineSet(c)
    \/ \E c \in Clients : storage = <<>> /\ AddTrackStart(c, Keys, TrackTypes)
    \/ \E c \in Clients : AddTrackTracks(c, OneTime)
    \/ \E c \in Clients : AddTrackUpdate(c)
    \/ \E c \in Clients : ExportTimelineEDLStart(c, {TRUE}, Keys, {Some("CMX3600")},
                                                 Destinations)
    \/ \E c \in Clients : ExportTimelineEDLTimeline(c, OneTime)
    \/ \E c \in Clients : ExportTimelineEDLUpload(c)
    \/ \E c \in Clients : ExportTimelineEDLSignedUrl(c)
    \/ \E c \in Clients : SaveToGoogleDriveOpen(c)
    \/ \E c \in Clients : ExportTimelineEDLDrive(c)
    \/ \E c \in Clients : ExportTimelineEDLHistory(c, OneTime)

SpecExportConc == InitExportConc /\ [][NextExportConc]_vars

\* Math.floor(Math.random() * 1000), as far as two draws are equal or differ.
Draws == {0, 1}

\* Calls at the same and at different milliseconds, with random draws that
\* coincide or differ.
InitIds == InitWith(StoredTimelines(Catalogues(EditShapes)))

NextIds ==
    \/ Quiet /\ 1 \notin objects /\ GetTimelineStart(1, {1})
    \/ GetTimelineGet(1)
    \/ Quiet /\ AddTrackStart(1, {1}, TrackTypes)
    \/ AddTrackTracks(1, Times)
    \/ AddTrackUpdate(1)
    \/ Quiet /\ AddClipStart(1, {1}, TrackIds, ConcClipData)
    \/ AddClipTimeline(1, Times)
    \/ AddClipSet(1)
    \/ Quiet /\ AutoAssembleCloudStart(1, {TRUE}, {1}, {Some("chronological")},
                                       {Some("scene")}, {TRUE})
    \/ AutoAssembleCloudTimeline(1)
    \/ AutoAssembleCloudAssets(1, Draws, Times)
    \/ AutoAssembleCloudUpdate(1, Times)
    \/ Quiet /\ AutoAssembleClientStart(1, {1}, {Some("chronological")},
                                        {Some("scene")}, {TRUE})
    \/ AutoAssembleClientAssets(1, Draws, Times)
    \/ AutoAssembleClientUpdate(1)

SpecIds == InitIds /\ [][NextIds]_vars

\* Auto-assembly with every strategy and grouping, over tracks lists of
\* zero, one and two tracks.
InitPermute == InitWith(StoredTimelines(Catalogues(PermuteShapes)))

NextPermute ==
    \/ Quiet /\ 1 \notin objects /\ GetTimelineStart(1, {1})
    \/ GetTimelineGet(1)
    \/ Quiet /\ AddTrackStart(1, {1}, TrackTypes)
    \/ AddTrackTracks(1, OneTime)
    \/ AddTrackUpdate(1)
    \/ Quiet /\ AutoAssembleCloudStart(1, {TRUE}, {1}, Strategies, GroupBys, {FALSE})
    \/ AutoAssembleCloudTimeline(1)
    \/ AutoAssembleCloudAssets(1, {0}, OneTime)
    \/ AutoAssembleCloudUpdate(1, OneTime)
    \/ Quiet /\ AutoAssembleClientStart(1, {1}, Strategies, GroupBys, {FALSE})
    \/ AutoAssembleClientAssets(1, {0}, OneTime)
    \/ AutoAssembleClientUpdate(1)

SpecPermute == InitPermute /\ [][NextPermute]_vars

----------------------------------------------------------------------------
(* What the claims speak of.                                               *)

\* The step is one in which a call returns or throws.
Returns ==
    \E c \in Clients : pc'[c] = "idle" /\ (pc[c] # "idle" \/ call' # call)

\* The node of the timeline the last call was for, and the one the call
\* that returns in this step is for.
Called == IF call.id \in Keys THEN timelines[call.id] ELSE NoNode
CalledNext == IF call'.id \in Keys THEN timelines'[call'.id] ELSE NoNode

\* The last call was an auto-assembly that wrote the timeline.
Assembled == call.op = "autoAssemble" /\ call.outcome = "ok"

\* The clips of the one track an auto-assembly leaves.
AssembledClips == Called.tracks[1].clips

\* The place of an asset in a sequence of assets.
PosIn(s, a) == CHOOSE i \in 1..Len(s) : s[i].id = a.id

\* The clip duration the specification resolves: metadata.duration when
\* present and above 0, else 5.
ResolvedDuration(asset) ==
    IF IsSome(asset.metadata.duration) /\ asset.metadata.duration[1] > 0
    THEN asset.metadata.duration[1]
    ELSE 5

RECURSIVE SumResolved(_)
SumResolved(s) ==
    IF s = <<>> THEN 0 ELSE ResolvedDuration(Head(s)) + SumResolved(Tail(s))

\* The sort key the specification gives an asset: timestamp, else uploadTime.
ChronologicalKey(asset) ==
    IF IsSome(asset.metadata.timestamp)
    THEN asset.metadata.timestamp[1]
    ELSE asset.uploadTime

\* The group key the specification resolves: metadata[groupBy], else
\* metadata.analysis[groupBy], else "unknown".
ChainKey(asset, groupBy) ==
    IF IsSome(Lookup(asset.metadata, groupBy))
    THEN Lookup(asset.metadata, groupBy)[1]
    ELSE IF IsSome(Lookup(asset.metadata.analysis, groupBy))
    THEN Lookup(asset.metadata.analysis, groupBy)[1]
    ELSE "unknown"

\* Where a group key first appears in the ordered sequence.
FirstAppearance(path, groupBy, sorted, key) ==
    CHOOSE i \in 1..Len(sorted) :
        /\ GroupKey(path, sorted[i], groupBy) = key
        /\ \A j \in 1..(i - 1) : GroupKey(path, sorted[j], groupBy) # key

NoOverlap(c1, c2) == c1.endTime <= c2.startTime \/ c2.endTime <= c1.startTime

WellFormedClip(c) ==
    /\ c.endTime # NaN
    /\ c.endTime > c.startTime
    /\ c.outPoint > c.inPoint
    /\ c.endTime - c.startTime = c.outPoint - c.inPoint

\* The timelines stored with a tracks list.
WithTracks == {id \in Keys : Has(timelines[id], "tracks")}

----------------------------------------------------------------------------
(* The claims.                                                             *)

\* C1: after an auto-assembly without transitions, the stored duration is
\* the sum of the assets' resolved clip durations and is the endTime of the
\* last clip of the track.
C1_DurationIsSum ==
    (Assembled /\ ~call.addTransitions) =>
        /\ Called.duration = SumResolved(AssetsOf(Called))
        /\ Called.duration = AssembledClips[Len(AssembledClips)].endTime

\* C2: no two distinct clips of the track an auto-assembly leaves overlap,
\* whatever the assets' durations (missing, zero or negative included).
C2_NoOverlap ==
    Assembled =>
        \A i, j \in 1..Len(AssembledClips) :
            i # j => NoOverlap(AssembledClips[i], AssembledClips[j])

\* C3: no completed addClip is lost to a concurrent call: once every call
\* has returned, each clip an addClip returned is stored as often as it was
\* returned, and duration is the largest endTime stored.
C3_NoLostUpdate ==
    Quiet =>
        \A id \in WithTracks :
            /\ \A i \in 1..Len(acked[id]) :
                   StoredCount(acked[id][i], timelines[id].tracks)
                       >= CountIn(acked[id][i], acked[id])
            /\ acked[id] # <<>> =>
                   /\ \A c \in AllClips(timelines[id].tracks) :
                          c.endTime <= timelines[id].duration
                   /\ \E c \in AllClips(timelines[id].tracks) :
                          c.endTime = timelines[id].duration

\* C4: in every state, duration is the largest endTime over all clips of
\* all tracks, or 0 when there is no clip.
C4_DurationIsMaxEnd ==
    \A id \in WithTracks :
        LET clips == AllClips(timelines[id].tracks) IN
        IF clips = {} THEN timelines[id].duration = 0
        ELSE /\ \A c \in clips : c.endTime # NaN /\ c.endTime <= timelines[id].duration
             /\ \E c \in clips : c.endTime = timelines[id].duration

\* C5: every stored clip, placed by auto-assembly or built by addClip from
\* any clipData, has endTime > startTime, outPoint > inPoint and
\* endTime - startTime = outPoint - inPoint.
C5_ClipsWellFormed ==
    \A id \in WithTracks : \A c \in AllClips(timelines[id].tracks) : WellFormedClip(c)

\* C6: the clips of every track are pairwise non-overlapping and stored in
\* ascending startTime order.
C6_TracksOrdered ==
    \A id \in WithTracks :
        \A t \in 1..Len(timelines[id].tracks) :
            LET clips == timelines[id].tracks[t].clips IN
            \A i, j \in 1..Len(clips) :
                i < j => /\ clips[i].startTime <= clips[j].startTime
                         /\ NoOverlap(clips[i], clips[j])

\* C7: with strategy 'chronological', on either path, the assembled order
\* is ascending by timestamp, with uploadTime as the key of an asset that
\* has no timestamp, and assets of equal keys keep their input order.
C7_ChronologicalOrder ==
    (Assembled /\ call.strategy = Some("chronological")) =>
        \A i, j \in 1..Len(locals.sorted) :
            i < j =>
                \/ ChronologicalKey(locals.sorted[i]) < ChronologicalKey(locals.sorted[j])
                \/ /\ ChronologicalKey(locals.sorted[i]) = ChronologicalKey(locals.sorted[j])
                   /\ PosIn(locals.assets, locals.sorted[i])
                          < PosIn(locals.assets, locals.sorted[j])

\* C8: with groupBy set, the assembled sequence is the groups one after
\* another, in the order in which each group's key first appears in the
\* ordered sequence, numeric-looking keys included.
C8_GroupsInFirstAppearanceOrder ==
    (Assembled /\ TruthyText(call.groupBy)) =>
        \A i, j \in 1..Len(locals.grouped) :
            i < j =>
                LET ki == GroupKey(call.path, locals.grouped[i], call.groupBy[1])
                    kj == GroupKey(call.path, locals.grouped[j], call.groupBy[1])
                IN  FirstAppearance(call.path, call.groupBy[1], locals.sorted, ki)
                        <= FirstAppearance(call.path, call.groupBy[1], locals.sorted, kj)

\* C9: grouping keeps the order within a group: two assets whose group key
\* resolves to the same value (metadata[groupBy], else
\* metadata.analysis[groupBy], else "unknown") stand in the grouped output as
\* they stood in the ordered input.
C9_StableWithinGroup ==
    (Assembled /\ TruthyText(GroupBy(call.path, call.groupBy))) =>
        \A i, j \in 1..Len(locals.grouped) :
            (/\ i < j
             /\ ChainKey(locals.grouped[i], GroupBy(call.path, call.groupBy)[1])
                    = ChainKey(locals.grouped[j], GroupBy(call.path, call.groupBy)[1]))
                => PosIn(locals.sorted, locals.grouped[i])
                       < PosIn(locals.sorted, locals.grouped[j])

\* C10: on either path, every asset is filed under metadata[groupBy] if
\* present, else metadata.analysis[groupBy] if present, else "unknown".
C10_LookupChain ==
    (Assembled /\ TruthyText(call.groupBy)) =>
        \A g \in 1..Len(locals.groups) :
            \A m \in 1..Len(locals.groups[g].members) :
                locals.groups[g].key
                    = ChainKey(locals.groups[g].members[m], call.groupBy[1])

\* The assetIds of a sequence of clips, and the ids of a sequence of assets.
AssetIdsOf(clips) == [i \in 1..Len(clips) |-> clips[i].assetId]
IdsOf(as) == [i \in 1..Len(as) |-> as[i].id]

\* C11: an auto-assembly whose options carry no groupBy does not regroup:
\* the sequence placed on the track is the ordered sequence the strategy
\* produced, on the cloud path and on the client path.
C11_NoGroupByIsIdentity ==
    (Assembled /\ call.groupBy = None) =>
        /\ locals.grouped = locals.sorted
        /\ AssetIdsOf(AssembledClips) = IdsOf(locals.sorted)

\* The strategies the specification defines.
KnownStrategies == {"chronological", "semantic"}

\* C12: an auto-assembly over stored assets whose strategy is neither
\* 'chronological' nor 'semantic' ends in an unsupported-strategy error; it
\* never completes as an assembly.
C12_UnknownStrategyFails ==
    (/\ call.op = "autoAssemble"
     /\ call.auth
     /\ AssetsOf(Called) # <<>>
     /\ IsSome(call.strategy)
     /\ call.strategy[1] \notin KnownStrategies)
        => call.message = "unsupported-strategy"

\* C13: the duration of every placed clip is its asset's metadata.duration
\* when that is present and above 0, and 5 otherwise.
C13_ClipDurationResolved ==
    Assembled =>
        \A i \in 1..Len(AssembledClips) :
            /\ AssembledClips[i].outPoint = ResolvedDuration(locals.grouped[i])
            /\ AssembledClips[i].endTime - AssembledClips[i].startTime
                   = ResolvedDuration(locals.grouped[i])

\* C14: placement is contiguous from zero: the first clip starts at 0, each
\* later clip starts where the one before it ends, every clip has
\* inPoint = 0, outPoint = its clip duration and
\* endTime = startTime + its clip duration, and the cursor never decreases.
C14_ContiguousFromZero ==
    Assembled =>
        LET clips == AssembledClips IN
        /\ clips[1].startTime = 0
        /\ \A i \in 2..Len(clips) : clips[i].startTime = clips[i - 1].endTime
        /\ \A i \in 1..Len(clips) :
               /\ clips[i].inPoint = 0
               /\ clips[i].outPoint = ClipDuration(locals.grouped[i])
               /\ clips[i].endTime = clips[i].startTime + ClipDuration(locals.grouped[i])
               /\ clips[i].endTime >= clips[i].startTime

\* C15: with addTransitions, on the cloud path and on the client path, the
\* first clip has no transitions.in, every later clip has a 'dissolve' of
\* min(1.0, clipDuration / 4) seconds, and no clip has transitions.out.
C15_TransitionDuration ==
    (Assembled /\ call.addTransitions) =>
        \A i \in 1..Len(AssembledClips) :
            LET clip == AssembledClips[i] IN
            /\ clip.transitions.out = None
            /\ i = 1 => clip.transitions.in = None
            /\ i > 1 => clip.transitions.in
                            = Some([type |-> "dissolve",
                                    durationQ |-> Min(4, clip.outPoint)])

\* C16: an auto-assembly requested when no asset is stored ends in a no-assets
\* error of its own, neither a generic internal error nor a normal return.
C16_NoAssetsError ==
    (/\ call.op = "autoAssemble"
     /\ call.auth
     /\ Has(Called, "name")
     /\ AssetsOf(Called) = <<>>)
        => call.outcome = "no-assets"

\* The last call was an export that returned the file's URL.
Exported == call.op = "exportEDL" /\ call.outcome = "ok"

\* The EDL file that export left in the bucket.
ExportedFile == storage[Called.exportHistory[call.key[1]].url]

\* The clips of a timeline, track by track in track order, and within a
\* track in stored order.
RECURSIVE FlatClips(_)
FlatClips(tracks) ==
    IF tracks = <<>> THEN <<>> ELSE Head(tracks).clips \o FlatClips(Tail(tracks))

IsDigits(text) == \A i \in 1..Len(text) : text[i] \in Range(DigitChar)

DigitValue(ch) == CHOOSE d \in 0..9 : DigitChar[d + 1] = ch

\* The number a text of decimal digits denotes.
RECURSIVE ParseNumber(_)
ParseNumber(text) ==
    IF text = <<>> THEN 0
    ELSE 10 * ParseNumber(SubSeq(text, 1, Len(text) - 1)) + DigitValue(text[Len(text)])

\* The timecode the specification gives s seconds (here in quarter seconds)
\* at framerate f, with mod the mathematical one.
TimecodeFields(quarters, f) ==
    [hh |-> quarters \div (3600 * 4),
     mm |-> (quarters % (3600 * 4)) \div (60 * 4),
     ss |-> (quarters % (60 * 4)) \div 4,
     ff |-> ((quarters % 4) * f) \div 4]

TimecodeText(tc) ==
    PadStart(NumberToString(tc.hh), 2, "0") \o <<":">>
        \o PadStart(NumberToString(tc.mm), 2, "0") \o <<":">>
        \o PadStart(NumberToString(tc.ss), 2, "0") \o <<":">>
        \o PadStart(NumberToString(tc.ff), 2, "0")

\* text is the timecode of a clip time of so many seconds at framerate f.
IsTimecodeOf(text, seconds, f) ==
    /\ seconds # NaN
    /\ text = TimecodeText(TimecodeFields(4 * seconds, f))

\* C17: a CMX3600 export of a timeline that has no track, or whose tracks
\* all hold zero clips, fails with the no-clips error; it does not return a
\* file.
C17_NoClipsError ==
    (/\ call.op = "exportEDL"
     /\ call.auth
     /\ call.format = Some("CMX3600")
     /\ Has(Called, "name")
     /\ TotalClips(TracksOf(Called)) = 0)
        => /\ call.outcome # "ok"
           /\ call.message = "no-tracks-or-clips"

\* C18: an export with a format other than 'CMX3600' of a timeline that has
\* clips fails with the unsupported-format error, and the step writes no
\* file to the temporary directory, uploads none and appends no
\* exportHistory record.
C18_UnsupportedFormatFails ==
    [][(/\ Returns
        /\ call'.op = "exportEDL"
        /\ call'.auth
        /\ IsSome(call'.format)
        /\ call'.format # Some("CMX3600")
        /\ TotalClips(TracksOf(CalledNext)) > 0)
           => /\ call'.outcome # "ok"
              /\ call'.message = "unsupported-format"
              /\ files' = files
              /\ storage' = storage
              /\ timelines' = timelines]_vars

\* C18's case: an export in format 'FCPXML' of a timeline that has clips has
\* been refused.
C18_Witness ==
    /\ call.op = "exportEDL"
    /\ call.auth
    /\ call.format = Some("FCPXML")
    /\ TotalClips(TracksOf(Called)) > 0
    /\ call.outcome # "ok"

\* C19: in the exported EDL the events are numbered 1, 2, 3, ... without gap
\* or repeat, there is one event per clip, and the events follow the clips
\* track by track in track order and, within a track, in stored order.
C19_EventNumbering ==
    Exported =>
        LET events == ExportedFile.events
            clips == FlatClips(Called.tracks)
        IN  /\ Len(events) = TotalClips(Called.tracks)
            /\ \A i \in 1..Len(events) :
                   /\ IsDigits(events[i].number)
                   /\ ParseNumber(events[i].number) = i
                   /\ events[i].clipName = clips[i].assetId
                   /\ events[i].recordStart
                          = FormatTC(Quarters(clips[i].startTime),
                                     Framerate(call.path, Called))

\* C19's case: an exported timeline of two tracks that both hold clips, three
\* clips or more in all.
C19_Witness ==
    /\ Exported
    /\ Len(Called.tracks) = 2
    /\ Called.tracks[1].clips # <<>>
    /\ Called.tracks[2].clips # <<>>
    /\ Len(ExportedFile.events) >= 3

\* C20: on every event line the four timecodes are those of the clip's
\* inPoint, outPoint, startTime and endTime, in this order, at
\* timeline.framerate: HH = floor(s/3600), MM = floor((s mod 3600)/60),
\* SS = floor(s mod 60), FF = floor((s mod 1) * f), MM and SS in 0..59.
C20_Timecodes ==
    Exported =>
        LET events == ExportedFile.events
            clips == FlatClips(Called.tracks)
            f == Called.framerate
        IN  \A i \in 1..Len(events) :
                /\ IsTimecodeOf(events[i].sourceStart, clips[i].inPoint, f)
                /\ IsTimecodeOf(events[i].sourceEnd, clips[i].outPoint, f)
                /\ IsTimecodeOf(events[i].recordStart, clips[i].startTime, f)
                /\ IsTimecodeOf(events[i].recordEnd, clips[i].endTime, f)

\* C21: no EDL text is produced from invalid input: an export returns a file
\* only when timeline.framerate is a positive number and no clip time is
\* negative.
C21_InvalidInputRejected ==
    Exported =>
        /\ Called.framerate # NaN
        /\ Called.framerate > 0
        /\ \A c \in AllClips(Called.tracks) :
               \A t \in {c.inPoint, c.outPoint, c.startTime, c.endTime} :
                   t = NaN \/ t >= 0

\* The fields of the stored timeline that an auto-assembly is to leave alone.
KeptFields == {"id", "name", "framerate", "resolution", "created", "assets",
               "exportHistory"}

\* C22: an auto-assembly changes only tracks, duration and modified of the
\* stored timeline: id, name, framerate and resolution and the asset records
\* stay as they were, and the tracks list becomes the one newly built track.
C22_OnlyTracksDurationModified ==
    [][(Returns /\ call'.op = "autoAssemble" /\ call'.outcome = "ok") =>
           /\ \A id \in Keys \ {call'.id} : timelines'[id] = timelines[id]
           /\ DOMAIN timelines'[call'.id]
                  = (DOMAIN timelines[call'.id]) \cup {"tracks", "duration", "modified"}
           /\ \A k \in KeptFields \cap DOMAIN timelines[call'.id] :
                  timelines'[call'.id][k] = timelines[call'.id][k]
           /\ Len(timelines'[call'.id].tracks) = 1
           /\ AssetIdsOf(timelines'[call'.id].tracks[1].clips)
                  = IdsOf(locals'.grouped)]_vars

\* C22's case: an auto-assembly has replaced a tracks list of two tracks.
C22_Witness ==
    /\ Assembled
    /\ call.before.tracks = 2
    /\ Len(Called.tracks) = 1
    /\ AssembledClips # <<>>

\* What of a clip two runs are to agree on: everything but its id.
ClipStructure(c) ==
    [assetId |-> c.assetId, startTime |-> c.startTime, endTime |-> c.endTime,
     inPoint |-> c.inPoint, outPoint |-> c.outPoint, transitions |-> c.transitions]

\* What of a timeline two runs are to agree on: the number of tracks, each
\* track's clips without their ids, and the duration.
Structure(tl) ==
    [tracks |-> [t \in 1..Len(tl.tracks) |->
                    [c \in 1..Len(tl.tracks[t].clips) |->
                        ClipStructure(tl.tracks[t].clips[c])]],
     duration |-> tl.duration]

\* C23: an auto-assembly that follows the same successful auto-assembly (same
\* function, same options, same stored assets) leaves the timeline with the
\* structure the first one left, whatever the clock and the random draws.
C23_Deterministic ==
    [][(/\ Assembled
        /\ Returns
        /\ call'.op = "autoAssemble"
        /\ call'.outcome = "ok"
        /\ call'.path = call.path
        /\ call'.id = call.id
        /\ call'.strategy = call.strategy
        /\ call'.groupBy = call.groupBy
        /\ call'.addTransitions = call.addTransitions
        /\ locals'.assets = locals.assets)
           => Structure(CalledNext) = Structure(Called)]_vars

\* C23's case: the same auto-assembly has run twice in a row, the second
\* time after the clock moved on, at readings of the clock that differ from
\* clip to clip and with draws that differ, over two assets or more.
C23_Witness ==
    /\ Assembled
    /\ call.before.same
    /\ Len(AssembledClips) >= 2
    /\ AssembledClips[1].id.ms > Called.created
    /\ AssembledClips[1].id.ms > Called.tracks[1].id
    /\ AssembledClips[1].id.rnd # AssembledClips[2].id.rnd

\* C27: in every state the clips of the timeline have pairwise distinct ids,
\* those made within one millisecond included.
C27_ClipIdsDistinct ==
    \A id \in WithTracks :
        LET clips == FlatClips(timelines[id].tracks) IN
        \A i, j \in 1..Len(clips) : i # j => clips[i].id # clips[j].id

\* C24: a call of autoAssembleTimeline or exportTimelineEDL without an
\* authenticated context is refused as 'unauthenticated', and the step
\* leaves the timelines with their assets and export histories, the bucket
\* and the temporary files as they were.
C24_UnauthenticatedRejected ==
    [][(/\ Returns
        /\ call'.op \in {"autoAssemble", "exportEDL"}
        /\ call'.path = "cloud"
        /\ ~call'.auth)
           => /\ call'.outcome = "unauthenticated"
              /\ timelines' = timelines
              /\ storage' = storage
              /\ files' = files]_vars

\* C24's case: an unauthenticated exportTimelineEDL for a timeline that has
\* clips and an export on record has been refused.
C24_Witness ==
    /\ call.op = "exportEDL"
    /\ call.path = "cloud"
    /\ ~call.auth
    /\ call.outcome = "unauthenticated"
    /\ TotalClips(TracksOf(Called)) > 0
    /\ ExportHistoryOf(Called) # <<>>

\* C25: exportTimelineEDL of a timeline that has tracks, in format CMX3600
\* and with a Google Drive destination, succeeds, and the record it appends
\* to exportHistory carries the Drive file's id.
C25_SavedToDrive ==
    (/\ call.op = "exportEDL"
     /\ call.path = "cloud"
     /\ call.auth
     /\ call.format = Some("CMX3600")
     /\ call.destination = Some("googleDrive")
     /\ Has(Called, "name")
     /\ TracksOf(Called) # <<>>)
        => /\ call.outcome = "ok"
           /\ IsSome(call.key)
           /\ call.key[1] \in DOMAIN ExportHistoryOf(Called)
           /\ IsSome(Called.exportHistory[call.key[1]].driveFileId)

\* C26: after a successful auto-assembly the timeline has exactly one track,
\* of type 'video', with as many clips as there are assets, and every asset
\* is the asset of exactly one clip.
C26_OneTrackPermutation ==
    Assembled =>
        /\ Len(Called.tracks) = 1
        /\ Called.tracks[1].type = "video"
        /\ Len(AssembledClips) = Len(AssetsOf(Called))
        /\ \A a \in 1..Len(AssetsOf(Called)) :
               Cardinality({i \in 1..Len(AssembledClips) :
                               AssembledClips[i].assetId = AssetsOf(Called)[a].id}) = 1

\* C26's case: an auto-assembly that both sorted and regrouped three assets
\* into another order, and replaced a tracks list of two tracks.
C26_Witness ==
    /\ Assembled
    /\ Len(AssetsOf(Called)) = 3
    /\ locals.sorted # locals.assets
    /\ locals.grouped # locals.sorted
    /\ call.before.tracks = 2

====
